---- MODULE Spec2Model ----
(***************************************************************************)
(* Joshua audio output processor (adaptive playout buffer), Joshua mic      *)
(* input processor (capture chunker) and the chat client's delivery of      *)
(* server audio to the output processor.                                   *)
(*                                                                         *)
(* Units.  Sample counts are integers, as in the source.  The source keeps *)
(* its time metrics in seconds (samples / sampleRate); here they are kept  *)
(* in samples, i.e. in units of 1/sampleRate seconds, which preserves      *)
(* every sum and every comparison the source makes on them.  Amplitudes    *)
(* are integers in units of 1e-4, the threshold of the audibility test; a  *)
(* gain is an exact fraction num/den.                                      *)
(*                                                                         *)
(* A Float32Array frame is represented by its length, the position of its  *)
(* first sample in the stream of samples posted to the processor, and the  *)
(* pattern its sample values follow; At(frame, k) is its k-th element.     *)
(*                                                                         *)
(* The capture chunker's arrays (a resampled block, pcmBuffer, the data of  *)
(* a chunk) are represented as sequences of segments: a segment stands for *)
(* the elements from .. to-1 of the array resampleTo24kHz returns for the  *)
(* input block of one process() call.  Adjacent segments of one call are   *)
(* always merged, so two arrays are equal as sequences of samples exactly  *)
(* when their representations are equal.                                   *)
(***************************************************************************)
EXTENDS Integers, Sequences, FiniteSets, TLC

\* ------------------------------------------------------------------ bounds
\* AudioWorkletGlobalScope.sampleRate (Hz) of the output device.
sampleRate == 50
\* Length of the output block the host hands to process() (render quantum).
BlockLen == 3
\* Number of messages (audio and reset) posted to the processor in a run.
MaxMsgs == 3
\* remainingPartialBufferSamples decreases on every callback that cannot
\* play; callbacks that cannot play stop once it is MaxIdle blocks below 0.
MaxIdle == 1
\* actualAudioPlayed grows with every callback that plays; callbacks that
\* play stop once MaxPlayed blocks' worth of samples have been played.
MaxPlayed == 3
\* Length of the input block the host hands to the mic processor.
RenderQuantum == 128
\* Number of process() calls of the mic processor in a run.
MaxCallbacks == 4
\* Number of start/stop commands handled by the mic processor in a run.
MaxCommands == 3
\* Greatest length of the input blocks whose resampling is developed sample
\* by sample.
MaxInputLen == 31
\* Number of messages posted in a run that repeats underruns until
\* partialBufferSamples has reached its cap.
MaxUnderruns == 14
\* Number of audio_chunk messages the client receives in a run.
MaxChunks == 3
\* Number of initAudio() calls the client makes in a run.
MaxInits == 2

\* ------------------------------------------------------- numeric helpers
Min(a, b) == IF a <= b THEN a ELSE b
Max(a, b) == IF a >= b THEN a ELSE b

\* Math.round((mili * sampleRate) / 1000): round half up.
asSamples(mili) == (2 * mili * sampleRate + 1000) \div 2000

DEFAULT_MAX_BUFFER_MS == 5 * 60 * 1000

\* Constructor: buffer length definitions.
frameSize == asSamples(80)
initialBufferSamples == 1 * frameSize
partialBufferIncrement == asSamples(500)
maxPartialWithIncrements == asSamples(6000)
maxBufferSamplesIncrement == asSamples(500)
maxMaxBufferWithIncrements == asSamples(6000)
\* Defaults of the two adaptive parameters (constructor and initState).
DefaultPartialBufferSamples == asSamples(10)
DefaultMaxBufferSamples == asSamples(DEFAULT_MAX_BUFFER_MS)
\* minDelay sentinel: 2000 (seconds), in samples.
MinDelaySentinel == 2000 * sampleRate

\* ---------------------------------------------------------------- frames
Patterns == {"quiet", "loud"}

\* Amplitude (units of 1e-4) of element k (0-based) of a frame of pattern p.
Amplitude(p, k) ==
  CASE p = "quiet" -> IF k % 4 = 1 THEN 1 ELSE IF k % 4 = 3 THEN -1 ELSE 0
    [] p = "loud"  -> IF k % 2 = 0 THEN 5000 ELSE -5000

\* Element k (0-based) of frame f: its stream position and its amplitude.
At(f, k) == [id |-> f.first + k, v |-> Amplitude(f.pat, k), num |-> 1, den |-> 1]

\* A zeroed output sample (the host hands process() a zero-filled block).
Silence == [id |-> 0, v |-> 0, num |-> 1, den |-> 1]

\* A frame as long as the overflow threshold of a freshly constructed buffer.
BigFrame == initialBufferSamples + DefaultPartialBufferSamples + DefaultMaxBufferSamples

\* The frames posted: empty, shorter than a block, a block, the start
\* threshold, the overflow threshold.
FrameLens == {0, 1, BlockLen, initialBufferSamples, BigFrame}

\* Length and pattern of the frames posted.
PostedFrames ==
  {f \in FrameLens \X Patterns :
     /\ f[1] = 0 => f[2] = "quiet"
     /\ f[1] = BigFrame => f[2] = "loud"}

VARIABLES
  \* fields of JoshuaAudioProcessor
  frames, offsetInFirstBuffer, firstOut, remainingPartialBufferSamples,
  timeInStream, started, totalAudioPlayed, actualAudioPlayed, maxDelay,
  minDelay, partialBufferSamples, maxBufferSamples,
  \* the processor's port: messages in flight to it, telemetry posted by it
  port, telemetry,
  \* the output block of the latest process() call
  output,
  \* what the latest step was and did
  op, out_idx, anyAudio, playable, dropped, overflowed,
  \* history of the run
  nextId, resetMark, pushedSamples, playedSamples, droppedSamples,
  lastPlayedId, nPosted,
  \* fields of JoshuaMicProcessor
  isRecording, pcmBuffer,
  \* AudioWorkletGlobalScope.sampleRate (Hz) of the capture context
  micSampleRate,
  \* the audioChunk messages posted by the latest step of the mic processor
  micPosted,
  \* what the latest step of the mic processor was
  micOp,
  \* since the latest start: the data of the chunks posted and the resampled
  \* blocks of the calls processed, each concatenated in order
  micEmitted, micResampled,
  \* history of the mic processor's run
  nCallbacks, nCommands,
  \* an input block handed to resampleTo24kHz and the array it returned
  inputData, resampledArray,
  \* chat client: this.audioContext and this.audioProcessor (0 is null,
  \* otherwise the number of the initAudio() call that created the object)
  audioContext, audioProcessor,
  \* chat client: this.isAudioEnabled, this.isRecording
  isAudioEnabled, chatIsRecording,
  \* chat client: the initAudio() calls suspended at an await, the number of
  \* calls made and the number of audio_chunk messages received
  inits, nInits, nChunks,
  \* chat client: the frames posted to output processor nodes, in order, the
  \* handling of the latest audio_chunk and the latest step
  chatPosted, lastChunk, chatOp

procVars == <<frames, offsetInFirstBuffer, firstOut, remainingPartialBufferSamples,
              timeInStream, started, totalAudioPlayed, actualAudioPlayed, maxDelay,
              minDelay, partialBufferSamples, maxBufferSamples>>
stepVars == <<op, out_idx, anyAudio, playable, dropped, overflowed>>
histVars == <<nextId, resetMark, pushedSamples, playedSamples, droppedSamples,
              lastPlayedId, nPosted>>
outVars == <<procVars, port, telemetry, output, stepVars, histVars>>
micVars == <<isRecording, pcmBuffer, micSampleRate, micPosted, micOp, micEmitted,
             micResampled, nCallbacks, nCommands>>
resVars == <<inputData, resampledArray>>
chatFields == <<audioContext, audioProcessor, isAudioEnabled, chatIsRecording>>
chatVars == <<chatFields, inits, nInits, nChunks, chatPosted, lastChunk, chatOp>>
vars == <<outVars, micVars, resVars, chatVars>>

\* ------------------------------------------------------ processor methods
\* currentSamples(): queued samples not yet consumed.
RECURSIVE SumLen(_)
SumLen(fr) == IF fr = <<>> THEN 0 ELSE Head(fr).len + SumLen(Tail(fr))

currentSamplesOf(fr, off) == SumLen(fr) - off

currentSamples == currentSamplesOf(frames, offsetInFirstBuffer)

\* totalMaxBufferSamples()
totalMaxBufferSamples == maxBufferSamples + partialBufferSamples + initialBufferSamples

\* A canPlay() that forgets to look at the queue.
canPlayIgnoringQueue == started /\ remainingPartialBufferSamples <= 0

\* A canPlay() that forgets the partial-buffer countdown.
canPlayIgnoringCountdown == started /\ Len(frames) > 0

\* canPlay()
canPlay == started /\ Len(frames) > 0 /\ remainingPartialBufferSamples <= 0

\* The fields initState() assigns.
initState ==
  [frames |-> <<>>, offsetInFirstBuffer |-> 0, firstOut |-> FALSE,
   remainingPartialBufferSamples |-> 0, timeInStream |-> 0, started |-> FALSE,
   totalAudioPlayed |-> 0, actualAudioPlayed |-> 0, maxDelay |-> 0,
   minDelay |-> MinDelaySentinel,
   partialBufferSamples |-> DefaultPartialBufferSamples,
   maxBufferSamples |-> DefaultMaxBufferSamples]

\* A message whose minDelay and maxDelay fields are exchanged.
TelemetryOfSwapped(total, actual, cur, mn, mx) ==
  [totalAudioPlayed |-> total, actualAudioPlayed |-> actual, delay |-> cur,
   minDelay |-> mx, maxDelay |-> mn]

\* The message processFrame() posts on the port.
TelemetryOf(total, actual, cur, mn, mx) ==
  [totalAudioPlayed |-> total, actualAudioPlayed |-> actual, delay |-> cur,
   minDelay |-> mn, maxDelay |-> mx]

NoTelemetry == [n |-> 0, last |-> TelemetryOf(0, 0, 0, 0, 0)]

OutputProcessorConstructed ==
  /\ frames = initState.frames
  /\ offsetInFirstBuffer = initState.offsetInFirstBuffer
  /\ firstOut = initState.firstOut
  /\ remainingPartialBufferSamples = initState.remainingPartialBufferSamples
  /\ timeInStream = initState.timeInStream
  /\ started = initState.started
  /\ totalAudioPlayed = initState.totalAudioPlayed
  /\ actualAudioPlayed = initState.actualAudioPlayed
  /\ maxDelay = initState.maxDelay
  /\ minDelay = initState.minDelay
  /\ partialBufferSamples = initState.partialBufferSamples
  /\ maxBufferSamples = initState.maxBufferSamples
  /\ port = <<>>
  /\ telemetry = NoTelemetry
  /\ output = [i \in 1 .. BlockLen |-> Silence]
  /\ op = "init" /\ out_idx = 0 /\ anyAudio = FALSE /\ playable = FALSE
  /\ dropped = 0 /\ overflowed = FALSE
  /\ nextId = 1 /\ resetMark = 1 /\ pushedSamples = 0
  /\ playedSamples = 0 /\ droppedSamples = 0 /\ lastPlayedId = 0
  /\ nPosted = 0

\* ------------------------------------------------------ capture chunker
\* JoshuaMicProcessor constructor, line 10.
TARGET_SAMPLE_RATE == 24000

\* JoshuaMicProcessor constructor, line 11 (0.08 s), in milliseconds.
CHUNK_DURATION == 80

\* JoshuaMicProcessor constructor, line 12.
SAMPLES_PER_CHUNK == (TARGET_SAMPLE_RATE * CHUNK_DURATION) \div 1000

\* Sample rates of the capture context.
NativeRates == {16000, TARGET_SAMPLE_RATE, 48000}

\* Lengths of the input channel: empty, one sample, a render quantum, a
\* chunk, more than two chunks.
BlockSizes == {0, 1, RenderQuantum, SAMPLES_PER_CHUNK, 2 * SAMPLES_PER_CHUNK + RenderQuantum}

\* inputs[0] of a process() call: missing or without channel, or one channel.
InputKinds == {"none", "noChannel", "channel"}

\* Number of elements a segment stands for.
SegLen(g) == g.to - g.from

\* array.length
RECURSIVE Count(_)
Count(a) == IF a = <<>> THEN 0 ELSE SegLen(Head(a)) + Count(Tail(a))

\* The elements of a followed by the elements of b.
Concat(a, b) ==
  IF a = <<>> THEN b
  ELSE IF b = <<>> THEN a
  ELSE LET x == a[Len(a)]
           y == Head(b)
       IN IF x.call = y.call /\ x.to = y.from
          THEN SubSeq(a, 1, Len(a) - 1) \o <<[x EXCEPT !.to = y.to]>> \o Tail(b)
          ELSE a \o b

\* The first n elements of a (all of them if a has fewer).
RECURSIVE TakeFirst(_, _)
TakeFirst(a, n) ==
  IF n <= 0 \/ a = <<>> THEN <<>>
  ELSE LET g == Head(a)
       IN IF SegLen(g) <= n
          THEN <<g>> \o TakeFirst(Tail(a), n - SegLen(g))
          ELSE <<[g EXCEPT !.to = g.from + n]>>

\* a without its first n elements.
RECURSIVE DropFirst(_, _)
DropFirst(a, n) ==
  IF n <= 0 \/ a = <<>> THEN a
  ELSE LET g == Head(a)
       IN IF SegLen(g) <= n
          THEN DropFirst(Tail(a), n - SegLen(g))
          ELSE <<[g EXCEPT !.from = g.from + n]>> \o Tail(a)

\* A processor constructed already recording.
MicProcessorConstructedRecording ==
  /\ isRecording = TRUE
  /\ pcmBuffer = <<>>
  /\ micPosted = <<>>
  /\ micOp = "init"
  /\ micEmitted = <<>> /\ micResampled = <<>>
  /\ nCallbacks = 0 /\ nCommands = 0

\* The fields the constructor of JoshuaMicProcessor assigns.
MicProcessorConstructed ==
  /\ isRecording = FALSE
  /\ pcmBuffer = <<>>
  /\ micPosted = <<>>
  /\ micOp = "init"
  /\ micEmitted = <<>> /\ micResampled = <<>>
  /\ nCallbacks = 0 /\ nCommands = 0

\* No block has been resampled sample by sample.
NothingResampled == inputData = <<>> /\ resampledArray = <<>>

\* JoshuaChat constructor: no audio context, no output processor node, audio
\* neither enabled nor recording; nothing received, nothing posted.
NoChunk == [id |-> 0, kind |-> "pcm", node |-> 0, context |-> 0]
ChatConstructed ==
  /\ audioContext = 0
  /\ audioProcessor = 0
  /\ isAudioEnabled = FALSE
  /\ chatIsRecording = FALSE
  /\ inits = <<>>
  /\ nInits = 0
  /\ nChunks = 0
  /\ chatPosted = <<>>
  /\ lastChunk = NoChunk
  /\ chatOp = "none"

\* Both processors constructed; the client opens its AudioContext at
\* 24 kHz.
Init ==
  /\ OutputProcessorConstructed
  /\ MicProcessorConstructed
  /\ NothingResampled
  /\ ChatConstructed
  /\ micSampleRate = TARGET_SAMPLE_RATE


\* ------------------------------------------------- main thread -> processor
\* audioProcessor.port.postMessage({type: 'audio', frame}): the frame's
\* samples take the next positions of the posted stream.
PostAudioMessage(n, p) ==
  /\ UNCHANGED <<micVars, resVars, chatVars>>
  /\ port' = Append(port, [type |-> "audio",
                           frame |-> [first |-> nextId, len |-> n, pat |-> p],
                           mark |-> nextId])
  /\ nextId' = nextId + n
  /\ nPosted' = nPosted + 1
  /\ UNCHANGED <<procVars, telemetry, output, stepVars, resetMark, pushedSamples,
                 playedSamples, droppedSamples, lastPlayedId>>

\* At most MaxMsgs messages are posted in a run.
PostAudio(n, p) == nPosted < MaxMsgs /\ PostAudioMessage(n, p)

\* port.postMessage({type: 'reset'}); mark records how much of the stream
\* had been posted before it.
PostResetMessage ==
  /\ UNCHANGED <<micVars, resVars, chatVars>>
  /\ port' = Append(port, [type |-> "reset",
                           frame |-> [first |-> nextId, len |-> 0, pat |-> "quiet"],
                           mark |-> nextId])
  /\ nPosted' = nPosted + 1
  /\ UNCHANGED <<procVars, telemetry, output, stepVars, nextId, resetMark,
                 pushedSamples, playedSamples, droppedSamples, lastPlayedId>>

\* At most MaxMsgs messages are posted in a run.
PostReset == nPosted < MaxMsgs /\ PostResetMessage

\* The port delivers messages one at a time, in the order posted.
NextMessage == Head(port)

\* ------------------------------------------------------ onmessage: reset
\* A reset that keeps the queued frames.
ResetStateKeepingQueue ==
  [initState EXCEPT !.frames = frames, !.offsetInFirstBuffer = offsetInFirstBuffer]

\* A reset that keeps the adapted buffer parameters.
ResetStateKeepingParams ==
  [initState EXCEPT !.partialBufferSamples = partialBufferSamples,
                    !.maxBufferSamples = maxBufferSamples]

\* onmessage, lines 39-43: the fields after this.initState().
ResetState == initState

HandleReset ==
  /\ UNCHANGED <<micVars, resVars, chatVars>>
  /\ Len(port) > 0
  /\ NextMessage.type = "reset"
  /\ port' = Tail(port)
  /\ frames' = ResetState.frames
  /\ offsetInFirstBuffer' = ResetState.offsetInFirstBuffer
  /\ firstOut' = ResetState.firstOut
  /\ remainingPartialBufferSamples' = ResetState.remainingPartialBufferSamples
  /\ timeInStream' = ResetState.timeInStream
  /\ started' = ResetState.started
  /\ totalAudioPlayed' = ResetState.totalAudioPlayed
  /\ actualAudioPlayed' = ResetState.actualAudioPlayed
  /\ maxDelay' = ResetState.maxDelay
  /\ minDelay' = ResetState.minDelay
  /\ partialBufferSamples' = ResetState.partialBufferSamples
  /\ maxBufferSamples' = ResetState.maxBufferSamples
  /\ output' = [i \in 1 .. BlockLen |-> Silence]
  /\ op' = "reset" /\ out_idx' = 0 /\ anyAudio' = FALSE /\ playable' = FALSE
  /\ dropped' = 0 /\ overflowed' = FALSE
  /\ resetMark' = NextMessage.mark
  /\ pushedSamples' = 0 /\ playedSamples' = 0 /\ droppedSamples' = 0
  /\ lastPlayedId' = 0
  /\ UNCHANGED <<telemetry, nextId, nPosted>>

\* ------------------------------------------- onmessage: audio, processFrame
\* A start test that forgets the threshold.
ShouldStartOnAnyData(cur, st) == cur > 0 /\ ~st

\* A start test that needs more than the threshold.
ShouldStartAboveThreshold(cur, st) == cur > initialBufferSamples /\ ~st

\* processFrame, line 56: the start-threshold test.
ShouldStart(cur, st) == cur >= initialBufferSamples /\ ~st

\* An overflow test against the trim target instead of the threshold.
OverflowAtTarget(cur, totalMax) == cur >= initialBufferSamples + partialBufferSamples

\* processFrame, line 68: the overflow test.
OverflowTriggered(cur, totalMax) == cur >= totalMax

\* processFrame, line 75: what the trim leaves in the queue.
TrimTarget(partial) == initialBufferSamples + partial

\* A trim that always drops the rest of the head frame.
ToRemoveWholeFrame(first, off, cur, target) == first.len - off

\* A trim that forgets what is left of the head frame.
ToRemoveExcess(first, off, cur, target) == cur - target

\* processFrame, lines 81-85.
ToRemove(first, off, cur, target) == Min(first.len - off, cur - target)

\* processFrame, lines 76-92: drop the oldest samples down to target.
\* iterations counts the passes through the loop body; removesOrEnds tells
\* whether each pass shifted the head frame or was the last one.
RECURSIVE TrimLoop(_, _, _, _)
TrimLoop(fr, off, tis, target) ==
  IF currentSamplesOf(fr, off) > target
  THEN LET first == Head(fr)
           to_remove == ToRemove(first, off, currentSamplesOf(fr, off), target)
           off2 == off + to_remove
           rest == IF off2 = first.len
                   THEN TrimLoop(Tail(fr), 0, tis + to_remove, target)
                   ELSE TrimLoop(fr, off2, tis + to_remove, target)
       IN [rest EXCEPT
             !.iterations = @ + 1,
             !.removesOrEnds =
                @ /\ (off2 = first.len \/ ~(currentSamplesOf(fr, off2) > target))]
  ELSE [frames |-> fr, offset |-> off, timeInStream |-> tis,
        iterations |-> 0, removesOrEnds |-> TRUE]

\* A growth that forgets the cap.
GrowMaxBufferUncapped(m) == m + maxBufferSamplesIncrement

\* processFrame, lines 94-98.
GrowMaxBuffer(m) == Min(maxMaxBufferWithIncrements, m + maxBufferSamplesIncrement)

HandleAudio ==
  /\ UNCHANGED <<micVars, resVars, chatVars>>
  /\ Len(port) > 0
  /\ NextMessage.type = "audio"
  /\ LET frame == NextMessage.frame
         fr1 == Append(frames, frame)
         cur1 == currentSamplesOf(fr1, offsetInFirstBuffer)
         starting == ShouldStart(cur1, started)
         over == OverflowTriggered(cur1, totalMaxBufferSamples)
         t == IF over
              THEN TrimLoop(fr1, offsetInFirstBuffer, timeInStream,
                            TrimTarget(partialBufferSamples))
              ELSE [frames |-> fr1, offset |-> offsetInFirstBuffer,
                    timeInStream |-> timeInStream]
         cur2 == currentSamplesOf(t.frames, t.offset)
     IN /\ port' = Tail(port)
        /\ frames' = t.frames
        /\ offsetInFirstBuffer' = t.offset
        /\ timeInStream' = t.timeInStream
        /\ started' = (started \/ starting)
        /\ remainingPartialBufferSamples' =
             IF starting THEN partialBufferSamples ELSE remainingPartialBufferSamples
        /\ firstOut' = (firstOut \/ starting)
        /\ maxBufferSamples' =
             IF over THEN GrowMaxBuffer(maxBufferSamples) ELSE maxBufferSamples
        /\ telemetry' = [n |-> telemetry.n + 1,
                         last |-> TelemetryOf(totalAudioPlayed, actualAudioPlayed,
                                              cur2, minDelay, maxDelay)]
        /\ output' = [i \in 1 .. BlockLen |-> Silence]
        /\ op' = "audio" /\ out_idx' = 0 /\ anyAudio' = FALSE /\ playable' = FALSE
        /\ dropped' = cur1 - cur2
        /\ overflowed' = over
        /\ pushedSamples' = pushedSamples + frame.len
        /\ droppedSamples' = droppedSamples + (cur1 - cur2)
        /\ UNCHANGED <<totalAudioPlayed, actualAudioPlayed, maxDelay, minDelay,
                       partialBufferSamples, nextId, resetMark, playedSamples,
                       lastPlayedId, nPosted>>

\* --------------------------------------------------------------- process
\* An output sample is audible when x > 1e-4 || x < -1e-4 (line 208).
Audible(x) == x.v * x.num > x.den \/ x.v * x.num < -x.den

\* A copy of one sample at a time.
ToCopyAtMostOne(first, off, idx) == Min(1, Min(first.len - off, BlockLen - idx))

\* A copy length that forgets the room left in the output block.
ToCopyWholeFrame(first, off, idx) == first.len - off

\* A copy length that forgets what is left of the head frame.
ToCopyToBlockEnd(first, off, idx) == BlockLen - idx

\* process, lines 196-199.
ToCopy(first, off, idx) == Min(first.len - off, BlockLen - idx)

\* A subarray that forgets the offset into the frame.
subarrayFromStart(f, a, b) == [k \in 1 .. (b - a) |-> At(f, k - 1)]

\* first.subarray(a, b): elements a .. b-1 of the frame.
subarray(f, a, b) == [k \in 1 .. (b - a) |-> At(f, a + k - 1)]

\* output.set(sub, idx): sub written from position idx (0-based) on.
set(out, sub, idx) ==
  [i \in 1 .. Len(out) |->
     IF i - 1 >= idx /\ i - 1 < idx + Len(sub) THEN sub[i - idx] ELSE out[i]]

\* process, lines 194-216: the copy loop.
RECURSIVE CopyLoop(_, _, _, _, _)
CopyLoop(fr, off, out, idx, any) ==
  IF idx < BlockLen /\ Len(fr) > 0
  THEN LET first == Head(fr)
           to_copy == ToCopy(first, off, idx)
           out2 == set(out, subarray(first, off, off + to_copy), idx)
           any2 == any \/ (\E i \in 1 .. Len(out2) : Audible(out2[i]))
           off2 == off + to_copy
           idx2 == idx + to_copy
           rest == IF off2 = first.len
                   THEN CopyLoop(Tail(fr), 0, out2, idx2, any2)
                   ELSE CopyLoop(fr, off2, out2, idx2, any2)
       IN [rest EXCEPT
             !.iterations = @ + 1,
             !.removesOrEnds = @ /\ (off2 = first.len \/ ~(idx2 < BlockLen))]
  ELSE [frames |-> fr, offset |-> off, output |-> out, out_idx |-> idx,
        anyAudio |-> any, iterations |-> 0, removesOrEnds |-> TRUE]

\* output[i] *= a / b
Scale(x, a, b) == [x EXCEPT !.num = @ * a, !.den = @ * b]

\* A fade-in that leaves the block as copied.
FadeInSkipped(out, n) == out

\* process, lines 219-221: fade-in over the n copied samples.
FadeIn(out, n) ==
  [i \in 1 .. Len(out) |-> IF i - 1 < n THEN Scale(out[i], i - 1, n) ELSE out[i]]

\* A fade-out whose ramp counts the copied samples from 1.
FadeOutFromOne(out, n) ==
  [i \in 1 .. Len(out) |-> IF i - 1 < n THEN Scale(out[i], n - i, n) ELSE out[i]]

\* process, lines 232-234: fade-out over the n copied samples.
FadeOut(out, n) ==
  [i \in 1 .. Len(out) |-> IF i - 1 < n THEN Scale(out[i], n - (i - 1), n) ELSE out[i]]

\* An underrun test that forgets the number of samples copied.
MissedAudioOnSilence(idx, any) == ~any

\* process, line 223: the test guarding the underrun adaptation.
MissedAudio(idx, any) == idx < BlockLen /\ ~any

\* A growth that forgets the cap.
GrowPartialBufferUncapped(p) == p + partialBufferIncrement

\* process, lines 225-229.
GrowPartialBuffer(p) == Min(p + partialBufferIncrement, maxPartialWithIncrements)

\* The greatest stream position among the samples of out and id.
RECURSIVE GreatestId(_, _)
GreatestId(out, id) ==
  IF out = <<>> THEN id ELSE GreatestId(Tail(out), Max(Head(out).id, id))

\* A maxDelay that follows the latest delay.
NewMaxDelayIsLatest(mx, delay) == delay

\* process, line 173.
NewMaxDelay(mx, delay) == Max(mx, delay)

\* A minDelay that is never lowered.
NewMinDelayKeepsOld(mn, delay) == mn

\* process, line 174.
NewMinDelay(mn, delay) == Min(mn, delay)


\* A silent tick that counts its block whether or not audio was played.
ProcessSilentCountingAlways ==
  /\ UNCHANGED <<micVars, resVars, chatVars>>
  /\ ~canPlay
  /\ remainingPartialBufferSamples > -(MaxIdle * BlockLen)
  /\ totalAudioPlayed' = totalAudioPlayed + BlockLen
  /\ remainingPartialBufferSamples' = remainingPartialBufferSamples - BlockLen
  /\ output' = [i \in 1 .. BlockLen |-> Silence]
  /\ op' = "process" /\ out_idx' = 0 /\ anyAudio' = FALSE /\ playable' = FALSE
  /\ dropped' = 0 /\ overflowed' = FALSE
  /\ UNCHANGED <<frames, offsetInFirstBuffer, firstOut, timeInStream, started,
                 actualAudioPlayed, maxDelay, minDelay, partialBufferSamples,
                 maxBufferSamples, port, telemetry, histVars>>

\* process() when canPlay() is false (lines 177-183).
ProcessSilent ==
  /\ UNCHANGED <<micVars, resVars, chatVars>>
  /\ ~canPlay
  /\ remainingPartialBufferSamples > -(MaxIdle * BlockLen)
  /\ totalAudioPlayed' =
       IF actualAudioPlayed > 0 THEN totalAudioPlayed + BlockLen ELSE totalAudioPlayed
  /\ remainingPartialBufferSamples' = remainingPartialBufferSamples - BlockLen
  /\ output' = [i \in 1 .. BlockLen |-> Silence]
  /\ op' = "process" /\ out_idx' = 0 /\ anyAudio' = FALSE /\ playable' = FALSE
  /\ dropped' = 0 /\ overflowed' = FALSE
  /\ UNCHANGED <<frames, offsetInFirstBuffer, firstOut, timeInStream, started,
                 actualAudioPlayed, maxDelay, minDelay, partialBufferSamples,
                 maxBufferSamples, port, telemetry, histVars>>

\* process() when canPlay() is true (lines 171-175, 184-239).
PlayableTick ==
  /\ UNCHANGED <<micVars, resVars, chatVars>>
  /\ canPlay
  /\ LET delay == currentSamples
         c == CopyLoop(frames, offsetInFirstBuffer,
                       [i \in 1 .. BlockLen |-> Silence], 0, FALSE)
         out1 == IF firstOut THEN FadeIn(c.output, c.out_idx) ELSE c.output
         missed == MissedAudio(c.out_idx, c.anyAudio)
         out2 == IF missed THEN FadeOut(out1, c.out_idx) ELSE out1
     IN /\ maxDelay' = NewMaxDelay(maxDelay, delay)
        /\ minDelay' = NewMinDelay(minDelay, delay)
        /\ frames' = c.frames
        /\ offsetInFirstBuffer' = c.offset
        /\ firstOut' = FALSE
        /\ partialBufferSamples' =
             IF missed THEN GrowPartialBuffer(partialBufferSamples)
                       ELSE partialBufferSamples
        /\ started' = IF missed THEN FALSE ELSE started
        /\ totalAudioPlayed' = totalAudioPlayed + BlockLen
        /\ actualAudioPlayed' = actualAudioPlayed + c.out_idx
        /\ timeInStream' = timeInStream + c.out_idx
        /\ output' = out2
        /\ op' = "process" /\ out_idx' = c.out_idx /\ anyAudio' = c.anyAudio
        /\ playable' = TRUE
        /\ dropped' = 0 /\ overflowed' = FALSE
        /\ playedSamples' = playedSamples + c.out_idx
        /\ lastPlayedId' = GreatestId(c.output, lastPlayedId)
        /\ UNCHANGED <<remainingPartialBufferSamples, maxBufferSamples, port,
                       telemetry, nextId, resetMark, pushedSamples, droppedSamples,
                       nPosted>>

\* Callbacks that play stop once MaxPlayed blocks' worth of samples have
\* been played.
ProcessPlay == actualAudioPlayed < MaxPlayed * BlockLen /\ PlayableTick

Next ==
  \/ \E f \in PostedFrames : PostAudio(f[1], f[2])
  \/ PostReset
  \/ HandleReset
  \/ HandleAudio
  \/ ProcessSilent
  \/ ProcessPlay

Spec == Init /\ [][Next]_vars

\* ------------------------------------------------- repeated underruns
\* A run in which the main thread posts, each time the buffer has fallen
\* back to buffering with an empty queue, one inaudible frame of
\* initialBufferSamples samples: the buffer starts, counts down, plays the
\* frame and falls short on its last block.
PostThresholdFrame ==
  /\ port = <<>> /\ frames = <<>> /\ ~started
  /\ nPosted < MaxUnderruns
  /\ PostAudioMessage(initialBufferSamples, "quiet")

\* The main thread posts one reset in the run, after an underrun.
PostResetAfterUnderrun ==
  /\ port = <<>> /\ frames = <<>> /\ ~started
  /\ resetMark = 1 /\ nextId > 1
  /\ nPosted < MaxUnderruns
  /\ PostResetMessage

UnderrunNext ==
  \/ PostThresholdFrame
  \/ PostResetAfterUnderrun
  \/ HandleReset
  \/ HandleAudio
  \/ ProcessSilent
  \/ PlayableTick

UnderrunSpec == Init /\ [][UnderrunNext]_vars

\* The host calls process() once per render quantum for as long as the
\* node is connected: a tick that can be taken is eventually taken.
RenderTick == ProcessSilent \/ PlayableTick

FairUnderrunSpec == UnderrunSpec /\ WF_vars(RenderTick)

\* ------------------------------------------------- JoshuaMicProcessor
\* A start that keeps what was accumulated.
OnStartKeepingBuffer ==
  /\ nCommands < MaxCommands
  /\ nCommands' = nCommands + 1
  /\ isRecording' = TRUE
  /\ micPosted' = <<>>
  /\ micOp' = "start"
  /\ micEmitted' = <<>> /\ micResampled' = pcmBuffer
  /\ UNCHANGED <<pcmBuffer, micSampleRate, nCallbacks, outVars, resVars, chatVars>>

\* onmessage, lines 22-25: command 'start'.
OnStart ==
  /\ nCommands < MaxCommands
  /\ nCommands' = nCommands + 1
  /\ isRecording' = TRUE
  /\ pcmBuffer' = <<>>
  /\ micPosted' = <<>>
  /\ micOp' = "start"
  /\ micEmitted' = <<>> /\ micResampled' = <<>>
  /\ UNCHANGED <<micSampleRate, nCallbacks, outVars, resVars, chatVars>>

\* A stop that empties the accumulator.
OnStopClearing ==
  /\ nCommands < MaxCommands
  /\ nCommands' = nCommands + 1
  /\ isRecording' = FALSE
  /\ pcmBuffer' = <<>>
  /\ micPosted' = <<>>
  /\ micOp' = "stop"
  /\ UNCHANGED <<micSampleRate, micEmitted, micResampled, nCallbacks,
                 outVars, resVars, chatVars>>

\* onmessage, lines 26-28: command 'stop'.
OnStop ==
  /\ nCommands < MaxCommands
  /\ nCommands' = nCommands + 1
  /\ isRecording' = FALSE
  /\ micPosted' = <<>>
  /\ micOp' = "stop"
  /\ UNCHANGED <<pcmBuffer, micSampleRate, micEmitted, micResampled, nCallbacks,
                 outVars, resVars, chatVars>>

\* ------------------------------------------- IEEE-754 double arithmetic
\* resampleTo24kHz computes its ratio, length and indices in JavaScript
\* numbers (binary64, round to nearest, ties to even).  A natural number of
\* any size is held as the sequence of its digits in base 2^LimbBits, least
\* significant first, without leading zeros; a positive double is m * 2^e
\* with m of at most SignificandBits binary digits.

\* Number of binary digits of a double's significand.
SignificandBits == 53

\* Binary digits per digit of a long number (products of two digits fit an
\* integer of the model).
LimbBits == 15

Pow2(k) == 2 ^ k

\* The digits of the natural number n.
RECURSIVE Limbs(_)
Limbs(n) ==
  IF n = 0 THEN <<>>
  ELSE <<n % Pow2(LimbBits)>> \o Limbs(n \div Pow2(LimbBits))

\* The natural number of digits a.
RECURSIVE IntOf(_)
IntOf(a) == IF a = <<>> THEN 0 ELSE Head(a) + Pow2(LimbBits) * IntOf(Tail(a))

\* a without leading zeros.
Canon(a) ==
  LET used == {k \in 1 .. Len(a) : a[k] /= 0}
  IN IF used = {} THEN <<>>
     ELSE SubSeq(a, 1, CHOOSE k \in used : \A j \in used : j <= k)

\* Number of binary digits of the digit x.
BitLenSmall(x) ==
  CHOOSE k \in 0 .. LimbBits : x < Pow2(k) /\ (k = 0 \/ Pow2(k - 1) <= x)

\* Number of binary digits of a.
BitLen(a) ==
  IF a = <<>> THEN 0 ELSE (Len(a) - 1) * LimbBits + BitLenSmall(a[Len(a)])

\* Binary digit k (0 the least significant) of a.
BitAt(a, k) ==
  IF k \div LimbBits + 1 > Len(a) THEN 0
  ELSE (a[k \div LimbBits + 1] \div Pow2(k % LimbBits)) % 2

\* a + b + c, for a carry c.
RECURSIVE AddCarry(_, _, _)
AddCarry(a, b, c) ==
  IF a = <<>> /\ b = <<>> THEN (IF c = 0 THEN <<>> ELSE <<c>>)
  ELSE LET s == (IF a = <<>> THEN 0 ELSE Head(a)) +
                (IF b = <<>> THEN 0 ELSE Head(b)) + c
       IN <<s % Pow2(LimbBits)>> \o
          AddCarry(IF a = <<>> THEN a ELSE Tail(a),
                   IF b = <<>> THEN b ELSE Tail(b), s \div Pow2(LimbBits))

AddLong(a, b) == AddCarry(a, b, 0)

\* a < b
LessLong(a, b) ==
  IF Len(a) /= Len(b) THEN Len(a) < Len(b)
  ELSE \E k \in 1 .. Len(a) :
         /\ a[k] < b[k]
         /\ \A j \in k + 1 .. Len(a) : a[j] = b[j]

\* a - b - c for a >= b + c, digit by digit (leading zeros kept).
RECURSIVE SubBorrow(_, _, _)
SubBorrow(a, b, c) ==
  IF a = <<>> THEN <<>>
  ELSE LET d == Head(a) - (IF b = <<>> THEN 0 ELSE Head(b)) - c
       IN <<(d + Pow2(LimbBits)) % Pow2(LimbBits)>> \o
          SubBorrow(Tail(a), IF b = <<>> THEN b ELSE Tail(b), IF d < 0 THEN 1 ELSE 0)

SubLong(a, b) == Canon(SubBorrow(a, b, 0))

\* a * n + c for a natural number n below 2^LimbBits and a carry c.
RECURSIVE MulCarry(_, _, _)
MulCarry(a, n, c) ==
  IF a = <<>> THEN Limbs(c)
  ELSE LET p == Head(a) * n + c
       IN <<p % Pow2(LimbBits)>> \o MulCarry(Tail(a), n, p \div Pow2(LimbBits))

MulSmall(a, n) == Canon(MulCarry(a, n, 0))

\* a * 2^k
Shl(a, k) ==
  IF a = <<>> THEN <<>>
  ELSE [j \in 1 .. k \div LimbBits |-> 0] \o MulSmall(a, Pow2(k % LimbBits))

\* floor(a / 2^k)
Shr(a, k) ==
  LET w == k \div LimbBits
      j == k % LimbBits
  IN IF Len(a) <= w THEN <<>>
     ELSE Canon([i \in 1 .. Len(a) - w |->
                   a[i + w] \div Pow2(j) +
                   (IF i + w < Len(a) THEN a[i + w + 1] % Pow2(j) ELSE 0) *
                     Pow2(LimbBits - j)])

\* Long division, one binary digit at a time within the digit x of the
\* dividend: digits k-1 .. 0 of x are still to bring down, q and r are the
\* quotient digit and the remainder so far.
RECURSIVE DivBitStep(_, _, _, _, _)
DivBitStep(x, b, k, q, r) ==
  IF k = 0 THEN [q |-> q, r |-> r]
  ELSE LET r2 == AddCarry(r, r, (x \div Pow2(k - 1)) % 2)
       IN IF LessLong(r2, b) THEN DivBitStep(x, b, k - 1, 2 * q, r2)
                             ELSE DivBitStep(x, b, k - 1, 2 * q + 1, SubLong(r2, b))

\* Long division: digits k .. 1 of a are still to bring down.
RECURSIVE DivLimbStep(_, _, _, _, _)
DivLimbStep(a, b, k, q, r) ==
  IF k = 0 THEN [q |-> Canon(q), r |-> r]
  ELSE LET d == DivBitStep(a[k], b, LimbBits, 0, r)
       IN DivLimbStep(a, b, k - 1, <<d.q>> \o q, d.r)

\* Quotient and remainder of a by b > 0.
DivLong(a, b) == DivLimbStep(a, b, Len(a), <<>>, <<>>)

\* The double nearest to (q + f) * 2^e, where 0 <= f < 1 and inexact tells
\* whether f > 0: q is cut to SignificandBits binary digits, to nearest,
\* ties to even.
RoundToDouble(q, inexact, e) ==
  IF BitLen(q) <= SignificandBits THEN [m |-> q, e |-> e]
  ELSE LET extra == BitLen(q) - SignificandBits
           top == Shr(q, extra)
           guard == BitAt(q, extra - 1)
           sticky == inexact \/ (\E j \in 0 .. extra - 2 : BitAt(q, j) = 1)
           up == guard = 1 /\ (sticky \/ BitAt(top, 0) = 1)
           m == IF up THEN AddLong(top, <<1>>) ELSE top
       IN IF BitLen(m) > SignificandBits
          THEN [m |-> Shr(m, 1), e |-> e + extra + 1]
          ELSE [m |-> m, e |-> e + extra]

\* The double nearest to a / b, for natural numbers a, b > 0 given by their
\* digits: the quotient is developed beyond SignificandBits digits first.
DivideToDouble(a, b) ==
  IF a = <<>> THEN [m |-> <<>>, e |-> 0]
  ELSE LET s == Max(0, SignificandBits + 3 + BitLen(b) - BitLen(a))
           d == DivLong(Shl(a, s), b)
       IN RoundToDouble(d.q, d.r /= <<>>, -s)

\* x / y in doubles, for a natural number x and a double y > 0.
DoubleDiv(x, y) ==
  IF y.e < 0 THEN DivideToDouble(Shl(Limbs(x), -y.e), y.m)
             ELSE DivideToDouble(Limbs(x), Shl(y.m, y.e))

\* x * y in doubles, for a natural number x below 2^LimbBits and a double y.
DoubleMul(x, y) == RoundToDouble(MulSmall(y.m, x), FALSE, y.e)

\* Math.floor(x) for a double x >= 0.
Floor(x) == IF x.e >= 0 THEN IntOf(Shl(x.m, x.e)) ELSE IntOf(Shr(x.m, -x.e))

\* ------------------------------------------------------ resampleTo24kHz
\* Sample rates at which blocks are resampled sample by sample.
ResampleRates == {6720, 16000, TARGET_SAMPLE_RATE, 27840, 44100, 48000}

\* Lengths of the input blocks resampled.
InputLengths == BlockSizes \cup (0 .. MaxInputLen)

\* resampleTo24kHz, line 43: sourceSampleRate / this.TARGET_SAMPLE_RATE.
ratio ==
  [rate \in NativeRates \cup ResampleRates |->
     DivideToDouble(Limbs(rate), Limbs(TARGET_SAMPLE_RATE))]

\* resampleTo24kHz, line 44: Math.floor(inputData.length / ratio).
outputLength ==
  [rate \in NativeRates \cup ResampleRates |->
     [n \in InputLengths |-> Floor(DoubleDiv(n, ratio[rate]))]]

\* The greatest length of an array resampled sample by sample.
MaxOutputLength ==
  LET lengths == {outputLength[rate][n] : rate \in ResampleRates, n \in 0 .. MaxInputLen}
  IN CHOOSE m \in lengths : \A k \in lengths : k <= m

\* resampleTo24kHz, line 48: Math.floor(i * ratio).
srcIndex ==
  [rate \in ResampleRates |->
     [i \in 0 .. MaxOutputLength |-> Floor(DoubleMul(i, ratio[rate]))]]

\* resampleTo24kHz, lines 39-44: length of the returned array.
ResampledLength(n, rate) ==
  IF rate = TARGET_SAMPLE_RATE THEN n ELSE outputLength[rate][n]

\* An index rounded up instead of down.
SrcIndexCeiling(i, rate) ==
  IF rate = TARGET_SAMPLE_RATE THEN i
  ELSE (i * rate + TARGET_SAMPLE_RATE - 1) \div TARGET_SAMPLE_RATE

\* resampleTo24kHz, lines 40, 48: the input index element i is read from.
SrcIndex(i, rate) ==
  IF rate = TARGET_SAMPLE_RATE THEN i ELSE srcIndex[rate][i]

\* resampleTo24kHz, line 49: inputData[j] || 0 (a read past the end of the
\* array gives undefined, hence 0; 0 is the only falsy sample value here).
ReadOrZero(a, j) == IF j < Len(a) /\ a[j + 1] /= 0 THEN a[j + 1] ELSE 0

\* resampleTo24kHz(inputData, sourceSampleRate), lines 38-53, on the array
\* of sample values a.
resampleSamples(a, rate) ==
  IF rate = TARGET_SAMPLE_RATE THEN a
  ELSE [i \in 1 .. ResampledLength(Len(a), rate) |-> ReadOrZero(a, SrcIndex(i - 1, rate))]

\* resampleTo24kHz(inputData, sourceSampleRate) for the n-sample input of
\* call c: element i is inputData[SrcIndex(i, rate)] || 0.
resampleTo24kHz(c, n, rate) ==
  IF ResampledLength(n, rate) = 0 THEN <<>>
  ELSE <<[call |-> c, len |-> n, from |-> 0, to |-> ResampledLength(n, rate)]>>

\* A loop test that leaves a full chunk in the accumulator.
ChunkReadyStrict(a) == Count(a) > SAMPLES_PER_CHUNK

\* process, line 82: the test of the chunking loop.
ChunkReady(a) == Count(a) >= SAMPLES_PER_CHUNK

\* A splice that empties the accumulator.
SplicedAll(a) == <<>>

\* process, line 84: pcmBuffer after splice(0, SAMPLES_PER_CHUNK).
Spliced(a) == DropFirst(a, SAMPLES_PER_CHUNK)

\* process, line 84: what splice(0, SAMPLES_PER_CHUNK) returns.
SpliceResult(a) == TakeFirst(a, SAMPLES_PER_CHUNK)

\* process, lines 87-93: the message posted for a chunk.
AudioChunk(chunk) ==
  [type |-> "audioChunk", data |-> chunk, sampleRate |-> TARGET_SAMPLE_RATE,
   duration |-> CHUNK_DURATION, samples |-> Count(chunk)]

\* process, lines 82-94.
RECURSIVE ChunkLoop(_, _)
ChunkLoop(a, msgs) ==
  IF ChunkReady(a)
  THEN ChunkLoop(Spliced(a), Append(msgs, AudioChunk(SpliceResult(a))))
  ELSE [pcmBuffer |-> a, posted |-> msgs]

\* The data of the messages msgs, concatenated in order.
RECURSIVE DataOf(_)
DataOf(msgs) ==
  IF msgs = <<>> THEN <<>> ELSE Concat(Head(msgs).data, DataOf(Tail(msgs)))

\* process(inputs), lines 58-98, for an input of kind k whose channel 0
\* holds n samples.
MicProcess(k, n) ==
  /\ nCallbacks < MaxCallbacks
  /\ nCallbacks' = nCallbacks + 1
  /\ micOp' = "process"
  /\ IF ~isRecording \/ k = "none" \/ k = "noChannel" \/ n = 0
     THEN /\ micPosted' = <<>>
          /\ UNCHANGED <<pcmBuffer, micEmitted, micResampled>>
     ELSE LET resampledData == resampleTo24kHz(nCallbacks + 1, n, micSampleRate)
              r == ChunkLoop(Concat(pcmBuffer, resampledData), <<>>)
          IN /\ pcmBuffer' = r.pcmBuffer
             /\ micPosted' = r.posted
             /\ micEmitted' = Concat(micEmitted, DataOf(r.posted))
             /\ micResampled' = Concat(micResampled, resampledData)
  /\ UNCHANGED <<isRecording, micSampleRate, nCommands, outVars, resVars, chatVars>>

\* The capture context runs at one of NativeRates.
MicInit ==
  /\ OutputProcessorConstructed
  /\ MicProcessorConstructed
  /\ NothingResampled
  /\ ChatConstructed
  /\ micSampleRate \in NativeRates

MicNext ==
  \/ OnStart
  \/ OnStop
  \/ \E k \in InputKinds, n \in BlockSizes : MicProcess(k, n)

MicSpec == MicInit /\ [][MicNext]_vars

\* ----------------------------------- resampleTo24kHz, sample by sample
\* Sample values of the input blocks (integers standing for the Float32
\* samples of the channel).
InputPatterns == {"ramp", "wave"}

\* Element k (0-based) of an input block of pattern p.
InputSample(p, k) ==
  CASE p = "ramp" -> k + 1
    [] p = "wave" -> ((k * 3) % 7) - 3

\* The capture context runs at one of ResampleRates.
ResampleInit ==
  /\ OutputProcessorConstructed
  /\ MicProcessorConstructed
  /\ NothingResampled
  /\ ChatConstructed
  /\ micSampleRate \in ResampleRates

\* process, line 76: this.resampleTo24kHz(inputChannel, sampleRate) on a
\* channel of n samples of pattern p.
ResampleBlock(n, p) ==
  /\ inputData' = [k \in 1 .. n |-> InputSample(p, k - 1)]
  /\ resampledArray' = resampleSamples(inputData', micSampleRate)
  /\ UNCHANGED <<outVars, micVars, chatVars>>

ResampleNext == \E n \in 0 .. MaxInputLen, p \in InputPatterns : ResampleBlock(n, p)

ResampleSpec == ResampleInit /\ [][ResampleNext]_vars

\* ------------------------------------------- chat client: audio delivery
\* The client's fields that audio delivery reads and writes.  cleanup() also
\* drops the mic processor, the analysers and the media stream; none of them
\* is read by the methods below.
Fields == [audioContext |-> audioContext, audioProcessor |-> audioProcessor,
           isAudioEnabled |-> isAudioEnabled, isRecording |-> chatIsRecording]

SetFields(f) ==
  /\ audioContext' = f.audioContext
  /\ audioProcessor' = f.audioProcessor
  /\ isAudioEnabled' = f.isAudioEnabled
  /\ chatIsRecording' = f.isRecording

\* A cleanup that closes the context and leaves the output processor node
\* in place.
cleanupKeepingProcessor(f) ==
  [f EXCEPT !.audioContext = 0, !.isAudioEnabled = FALSE, !.isRecording = FALSE]

\* cleanup(): the output processor node is disconnected and dropped, the
\* context is closed and dropped, both flags are lowered.
cleanup(f) ==
  [f EXCEPT !.audioProcessor = 0, !.audioContext = 0,
            !.isAudioEnabled = FALSE, !.isRecording = FALSE]

\* startRecording(): nothing without a context, else isRecording = true.
startRecording(f) ==
  IF f.audioContext = 0 THEN f ELSE [f EXCEPT !.isRecording = TRUE]

\* stopRecording(): nothing when not recording, else isRecording = false
\* followed by cleanup().
stopRecording(f) ==
  IF ~f.isRecording THEN f ELSE cleanup([f EXCEPT !.isRecording = FALSE])

\* toggleAudio() after its await of initAudio(): recording starts when the
\* audio is enabled.
AfterInitAudio(f) == IF f.isAudioEnabled THEN startRecording(f) ELSE f

\* seq without its i-th element.
WithoutInit(seq, i) == SubSeq(seq, 1, i - 1) \o SubSeq(seq, i + 1, Len(seq))

\* toggleAudio() up to its first suspension: with the audio not enabled it
\* calls initAudio(), which suspends asking for the microphone; with the
\* audio enabled it stops or starts recording.
ToggleAudio ==
  /\ IF ~isAudioEnabled
       THEN /\ nInits < MaxInits
            /\ nInits' = nInits + 1
            /\ inits' = Append(inits, [id |-> nInits + 1, at |-> "getUserMedia"])
            /\ chatOp' = "toggleAudio"
            /\ UNCHANGED chatFields
       ELSE /\ SetFields(IF chatIsRecording THEN stopRecording(Fields)
                                            ELSE startRecording(Fields))
            /\ chatOp' = IF chatIsRecording THEN "stopRecording" ELSE "startRecording"
            /\ UNCHANGED <<inits, nInits>>
  /\ UNCHANGED <<nChunks, chatPosted, lastChunk>>
  /\ UNCHANGED <<outVars, micVars, resVars>>

\* What the awaited operation of a suspended initAudio() call does: it
\* resolves, it rejects, or (last suspension only) it resolves and a
\* statement after the creation of the output processor node throws.
InitOutcomes == {"resolves", "throws", "throwsAfterOutput"}

\* initAudio() call number i resumes from its await.  A rejected await, or a
\* use of this.audioContext after cleanup() dropped it, throws: the catch
\* block reports the error and the call ends.  Otherwise the call runs to
\* its next await: after getUserMedia it creates the context; after the
\* first addModule it starts the second; after the second it sets up the
\* microphone input, the audio output (a new output processor node) and the
\* analysis and raises isAudioEnabled.  When the call ends, toggleAudio()
\* goes on.
InitAudioResumes(i, outcome) ==
  LET call == inits[i]
      threw == \/ outcome = "throws"
               \/ call.at /= "getUserMedia" /\ audioContext = 0
      withOutput == [Fields EXCEPT !.audioProcessor = call.id]
  IN /\ outcome = "throwsAfterOutput" => call.at = "addModuleAudio"
     /\ IF threw
          THEN /\ SetFields(AfterInitAudio(Fields))
               /\ inits' = WithoutInit(inits, i)
               /\ chatOp' = "initThrew"
          ELSE CASE call.at = "getUserMedia" ->
                      /\ SetFields([Fields EXCEPT !.audioContext = call.id])
                      /\ inits' = [inits EXCEPT ![i].at = "addModuleMic"]
                      /\ chatOp' = "audioContextCreated"
                 [] call.at = "addModuleMic" ->
                      /\ UNCHANGED chatFields
                      /\ inits' = [inits EXCEPT ![i].at = "addModuleAudio"]
                      /\ chatOp' = "moduleLoaded"
                 [] call.at = "addModuleAudio" /\ outcome = "throwsAfterOutput" ->
                      /\ SetFields(AfterInitAudio(withOutput))
                      /\ inits' = WithoutInit(inits, i)
                      /\ chatOp' = "initThrewAfterOutput"
                 [] call.at = "addModuleAudio" /\ outcome = "resolves" ->
                      /\ SetFields(AfterInitAudio([withOutput EXCEPT !.isAudioEnabled = TRUE]))
                      /\ inits' = WithoutInit(inits, i)
                      /\ chatOp' = "initAudio"
     /\ UNCHANGED <<nInits, nChunks, chatPosted, lastChunk>>
     /\ UNCHANGED <<outVars, micVars, resVars>>

\* Payloads of audio_chunk messages: base64 of an even number of bytes
\* ("pcm"), or text that atob() or the Int16Array constructor rejects.
ChunkKinds == {"pcm", "malformed"}

\* handleAudioResponse, line 879: both the output processor node and the
\* context exist.
CanDeliver(f) == f.audioProcessor /= 0 /\ f.audioContext /= 0

\* ws.onmessage with an audio_chunk message: handleAudioResponse(data).
\* Without the node or the context the chunk is dropped with a warning.
\* Otherwise the payload is decoded and the frame is posted to the node; a
\* payload that cannot be decoded throws before the post and the catch block
\* reports it.
HandleAudioResponse(kind) ==
  /\ nChunks < MaxChunks
  /\ nChunks' = nChunks + 1
  /\ lastChunk' = [id |-> nChunks + 1, kind |-> kind,
                   node |-> audioProcessor, context |-> audioContext]
  /\ chatPosted' = IF CanDeliver(Fields) /\ kind = "pcm"
                     THEN Append(chatPosted, [node |-> audioProcessor, chunk |-> nChunks + 1])
                     ELSE chatPosted
  /\ chatOp' = "audio_chunk"
  /\ UNCHANGED <<chatFields, inits, nInits>>
  /\ UNCHANGED <<outVars, micVars, resVars>>

ClientNext ==
  \/ ToggleAudio
  \/ \E i \in 1 .. Len(inits), outcome \in InitOutcomes : InitAudioResumes(i, outcome)
  \/ \E kind \in ChunkKinds : HandleAudioResponse(kind)

ClientSpec == Init /\ [][ClientNext]_vars

\* ================================================================ claims
\* Samples of port messages not yet handled.
RECURSIVE PortSamples(_)
PortSamples(q) == IF q = <<>> THEN 0 ELSE Head(q).frame.len + PortSamples(Tail(q))

ResetPending == \E i \in 1 .. Len(port) : port[i].type = "reset"

\* C1: on every render tick the output block has exactly BlockLen samples,
\* the number of samples copied from the queue is between 0 and BlockLen,
\* every position at or after the copied count is silence, and a tick on
\* which canPlay is false leaves the whole block silent.
C1_SilencePadding ==
  /\ Len(output) = BlockLen
  /\ 0 <= out_idx /\ out_idx <= BlockLen
  /\ \A i \in 1 .. Len(output) : i > out_idx => output[i] = Silence
  /\ (op = "process" /\ ~playable) =>
       (out_idx = 0 /\ \A i \in 1 .. Len(output) : output[i] = Silence)

\* A tick that copied some samples but fewer than a block.
C1_Witness ==
  /\ op = "process" /\ playable
  /\ 0 < out_idx /\ out_idx < BlockLen
  /\ \E i \in 1 .. out_idx : Audible(output[i])

\* C2: after a reset (or construction), every render tick copies no sample
\* and outputs silence as long as fewer than initialBufferSamples samples
\* have been pushed since that reset.
C2_StartThreshold ==
  (op = "process" /\ pushedSamples < initialBufferSamples) =>
    (out_idx = 0 /\ \A i \in 1 .. Len(output) : output[i] = Silence)

\* A tick after a handled reset that was posted after earlier samples, with
\* some samples pushed since the reset but fewer than the threshold.
C2_Witness ==
  /\ op = "process"
  /\ resetMark > 1
  /\ 0 < pushedSamples /\ pushedSamples < initialBufferSamples
  /\ Len(frames) > 0

\* C3: between resets the samples copied to the output blocks, taken over
\* all ticks, appear in the order pushed: each tick's copied samples have
\* strictly increasing stream positions, all beyond every position played
\* before and all among the positions pushed; and every pushed sample is
\* either played, still queued, or was discarded by the overflow trim.
C3_Fifo ==
  /\ [](playedSamples + droppedSamples + currentSamples = pushedSamples)
  /\ []((op = "process" /\ out_idx > 0) =>
          lastPlayedId - resetMark + 1 = playedSamples + droppedSamples)
  /\ [][ProcessPlay =>
          /\ \A i \in 1 .. out_idx' :
                /\ output'[i].id > lastPlayedId
                /\ output'[i].id >= resetMark
                /\ output'[i].id < resetMark + pushedSamples
          /\ \A i, j \in 1 .. out_idx' : i < j => output'[i].id < output'[j].id]_vars

\* A tick that played samples after the overflow trim discarded older ones
\* and after an earlier tick had played.
C3_Witness ==
  /\ op = "process" /\ out_idx > 0
  /\ droppedSamples > 0
  /\ playedSamples > out_idx

\* C4: port messages are handled in the order posted: no sample posted
\* before a reset is queued or played once that reset has been handled,
\* and no sample posted after it is lost to it (with no reset in flight,
\* every sample posted since the handled reset is in flight, queued,
\* played or discarded by the overflow trim).
C4_ResetOrdering ==
  /\ \A i \in 1 .. Len(frames) : frames[i].first >= resetMark
  /\ op = "process" => \A i \in 1 .. out_idx : output[i].id >= resetMark
  /\ ~ResetPending =>
       nextId - resetMark =
         PortSamples(port) + currentSamples + playedSamples + droppedSamples

\* Samples were posted, then a reset, then samples that a tick has played.
C4_Witness ==
  /\ resetMark > 1
  /\ op = "process" /\ out_idx > 0


\* The j-th (0-based) available sample of a queue with head offset off.
RECURSIVE SampleAt(_, _, _)
SampleAt(fr, off, j) ==
  LET first == Head(fr)
  IN IF j < first.len - off
     THEN At(first, off + j)
     ELSE SampleAt(Tail(fr), 0, j - (first.len - off))

\* The queue and its sample count once the arriving frame is appended.
Arrived == Append(frames, NextMessage.frame)
ArrivedSamples == currentSamplesOf(Arrived, offsetInFirstBuffer)

Process == ProcessSilent \/ ProcessPlay

\* C5 (as stated): a push that leaves the available sample count at or
\* below initialBufferSamples + partialBufferSamples + maxBufferSamples
\* discards nothing and does not trigger the overflow policy.
C5_NoDropUpToThreshold ==
  [][HandleAudio =>
       (ArrivedSamples <= totalMaxBufferSamples =>
          /\ frames' = Arrived
          /\ offsetInFirstBuffer' = offsetInFirstBuffer
          /\ maxBufferSamples' = maxBufferSamples)]_vars

\* C5 (amended): a push that leaves the available sample count strictly
\* below initialBufferSamples + partialBufferSamples + maxBufferSamples
\* discards nothing and does not trigger the overflow policy, and a render
\* tick removes from the queue only the samples it copies to the output.
C5_NoDropBelowThreshold ==
  /\ [][HandleAudio =>
          (ArrivedSamples < totalMaxBufferSamples =>
             /\ frames' = Arrived
             /\ offsetInFirstBuffer' = offsetInFirstBuffer
             /\ currentSamples' = ArrivedSamples
             /\ maxBufferSamples' = maxBufferSamples)]_vars
  /\ [][Process => currentSamples' = currentSamples - out_idx']_vars

\* A push that left a queue as long as the initial threshold, untrimmed.
C5_Witness ==
  /\ op = "audio" /\ ~overflowed
  /\ currentSamples >= BigFrame
  /\ currentSamples < totalMaxBufferSamples

\* C6: a push that leaves the available sample count at or above
\* initialBufferSamples + partialBufferSamples + maxBufferSamples ends with
\* exactly initialBufferSamples + partialBufferSamples samples available,
\* and these are the newest samples of the queue in their original order.
C6_OverflowTrim ==
  [][HandleAudio =>
       (ArrivedSamples >= totalMaxBufferSamples =>
          LET target == initialBufferSamples + partialBufferSamples
          IN /\ currentSamples' = target
             /\ partialBufferSamples' = partialBufferSamples
             /\ \A j \in 0 .. target - 1 :
                  SampleAt(frames', offsetInFirstBuffer', j) =
                    SampleAt(Arrived, offsetInFirstBuffer,
                             ArrivedSamples - target + j))]_vars

\* An overflow whose trim stopped inside a frame, with frames before it
\* dropped whole.
C6_Witness ==
  /\ op = "audio" /\ overflowed
  /\ offsetInFirstBuffer > 0
  /\ dropped > offsetInFirstBuffer

\* C7: every overflow sets maxBufferSamples to its previous value plus the
\* increment, limited by the cap, and never lowers it; between resets
\* maxBufferSamples never decreases.
C7_MaxBufferGrows ==
  /\ [][HandleAudio =>
          (ArrivedSamples >= totalMaxBufferSamples =>
             /\ maxBufferSamples' =
                  Min(maxMaxBufferWithIncrements,
                      maxBufferSamples + maxBufferSamplesIncrement)
             /\ maxBufferSamples' >= maxBufferSamples)]_vars
  /\ [][HandleReset \/ maxBufferSamples' >= maxBufferSamples]_vars

\* Some copied sample (before any fade) has magnitude above 1e-4.
CopiedAudible(out, n) == \E i \in 1 .. n : out[i].v > 1 \/ out[i].v < -1

\* Sample i (1-based) of out carries gain a/b.
HasGain(out, i, a, b) == out[i].num * b = a * out[i].den

\* C8: on a playable tick that copies fewer samples than a block, if some
\* copied sample is audible the copied samples are faded out, started
\* becomes false and partialBufferSamples grows by one increment (capped);
\* if all copied samples are silent none of the three happens.
C8_UnderrunAdaptation ==
  [][ProcessPlay =>
       LET n == out_idx'
           fadeIn(i) == IF firstOut THEN i - 1 ELSE n
       IN /\ (n < BlockLen /\ CopiedAudible(output', n)) =>
               /\ ~started'
               /\ partialBufferSamples' =
                    Min(maxPartialWithIncrements,
                        partialBufferSamples + partialBufferIncrement)
               /\ \A i \in 1 .. n :
                    HasGain(output', i, fadeIn(i) * (n - (i - 1)), n * n)
          /\ (n < BlockLen /\ ~CopiedAudible(output', n)) =>
               /\ started' = started
               /\ partialBufferSamples' = partialBufferSamples
               /\ \A i \in 1 .. n : HasGain(output', i, fadeIn(i), n)]_vars

\* C9 (as stated): a tick that finds the buffer started and the queue empty
\* outputs silence, grows partialBufferSamples by one increment (capped)
\* and sets started to false.
C9_StallAdapts ==
  [][Process =>
       ((started /\ frames = <<>>) =>
          /\ \A i \in 1 .. BlockLen : output'[i] = Silence
          /\ partialBufferSamples' =
               Min(maxPartialWithIncrements,
                   partialBufferSamples + partialBufferIncrement)
          /\ ~started')]_vars

\* C9 (amended): a tick that finds the buffer started and no frame queued
\* outputs silence and changes neither partialBufferSamples nor started;
\* it only lowers remainingPartialBufferSamples by the block length.
C9_StallIsSilent ==
  [][Process =>
       ((started /\ frames = <<>>) =>
          /\ \A i \in 1 .. BlockLen : output'[i] = Silence
          /\ out_idx' = 0
          /\ partialBufferSamples' = partialBufferSamples
          /\ started'
          /\ remainingPartialBufferSamples' =
               remainingPartialBufferSamples - BlockLen
          /\ frames' = <<>>)]_vars

\* A silent tick of a buffer that has played, is still started and has no
\* frame queued.
C9_Witness ==
  /\ op = "process" /\ ~playable
  /\ started /\ frames = <<>>
  /\ actualAudioPlayed > 0
  /\ remainingPartialBufferSamples < 0

\* C10: whenever a playable tick copies fewer samples than a block (the
\* queue ran empty), started is false after it.
C10_ShortBlockStopsPlayback ==
  [][ProcessPlay => (out_idx' < BlockLen => ~started')]_vars

\* C11: after every playable tick, minDelay <= currentDelay <= maxDelay,
\* currentDelay being the buffered sample count at the end of that tick.
C11_DelayBoundsAfterTick ==
  (op = "process" /\ playable) =>
     (minDelay <= currentSamples /\ currentSamples <= maxDelay)

\* C11 (amended): on every playable tick the buffered sample count measured
\* before the copy lies between the minDelay and the maxDelay the tick
\* leaves, and the count at the end of the tick is at most maxDelay.
C11_DelayBoundsBeforeCopy ==
  [][ProcessPlay =>
       /\ minDelay' <= currentSamples
       /\ currentSamples <= maxDelay'
       /\ currentSamples' <= maxDelay']_vars

\* A playable tick that copied samples and left fewer samples queued than
\* the minDelay it recorded.
C11_Witness ==
  /\ op = "process" /\ playable
  /\ out_idx > 0
  /\ currentSamples < minDelay
  /\ minDelay <= maxDelay

\* The gain of sample x is at most the gain of sample y.
GainAtMost(x, y) == x.num * y.den <= y.num * x.den

\* C12: on every playable tick that copies n samples, the copied sample of
\* index i (0-based) leaves with gain i/n when the fade-in is applied and
\* (n-i)/n when the fade-out is applied (their product when both are); the
\* fade-in ramp never decreases and the fade-out ramp never increases along
\* the block; every gain of the block lies in [0, 1] and no gain has a zero
\* denominator, whatever n is (n = 0 included).
C12_FadeRamps ==
  [][ProcessPlay =>
       LET n == out_idx'
           fadeIn == firstOut
           fadeOut == ~started'
       IN /\ \A i \in 1 .. BlockLen :
               /\ output'[i].den > 0
               /\ 0 <= output'[i].num /\ output'[i].num <= output'[i].den
          /\ \A i \in 1 .. n :
               HasGain(output', i,
                       (IF fadeIn THEN i - 1 ELSE n) * (IF fadeOut THEN n - (i - 1) ELSE n),
                       n * n)
          /\ \A i \in 1 .. n - 1 :
               /\ (fadeIn /\ ~fadeOut) => GainAtMost(output'[i], output'[i + 1])
               /\ (fadeOut /\ ~fadeIn) => GainAtMost(output'[i + 1], output'[i])]_vars

\* A playable tick that copied at least two samples and faded them out:
\* the first keeps gain 1, the second has a gain strictly between 0 and 1.
C12_Witness ==
  /\ op = "process" /\ playable
  /\ ~started
  /\ out_idx >= 2
  /\ output[1].num = output[1].den
  /\ 0 < output[2].num /\ output[2].num < output[2].den

\* C13: started becomes true only in a push, which arms firstOut; firstOut
\* is armed by nothing else and is cleared only by a playable tick or a
\* reset; a playable tick fades its copied samples in exactly when firstOut
\* is armed (it then copies at least one sample) and leaves firstOut
\* false. Hence the first playable tick after each transition to started
\* fades in and no other playable tick before the next transition does.
C13_FadeInOncePerStart ==
  /\ [][(~started /\ started') => (HandleAudio /\ firstOut')]_vars
  /\ [][(~firstOut /\ firstOut') => (~started /\ started')]_vars
  /\ [][(firstOut /\ ~firstOut') => (ProcessPlay \/ HandleReset)]_vars
  /\ [][ProcessPlay =>
         /\ ~firstOut'
         /\ firstOut =>
              /\ out_idx' > 0
              /\ output'[1].num = 0
              /\ \A i \in 2 .. out_idx' : output'[i].num > 0
         /\ (~firstOut /\ out_idx' > 0) => output'[1].num > 0]_vars

\* The faded-in first playable tick of a restart: the buffer had underrun
\* before (partialBufferSamples has grown) and the block starts at gain 0.
C13_Witness ==
  /\ op = "process" /\ playable
  /\ partialBufferSamples > DefaultPartialBufferSamples
  /\ out_idx > 1
  /\ output[1].num = 0 /\ output[2].num > 0
  /\ ~firstOut

\* The telemetry message describing the state a step leaves.
ReportAfterStep ==
  [totalAudioPlayed |-> totalAudioPlayed', actualAudioPlayed |-> actualAudioPlayed',
   delay |-> currentSamples', minDelay |-> minDelay', maxDelay |-> maxDelay']

C15_ResetIsFreshState ==
  /\ [][HandleReset =>
         /\ frames' = <<>> /\ offsetInFirstBuffer' = 0
         /\ ~started' /\ ~firstOut'
         /\ remainingPartialBufferSamples' = 0
         /\ timeInStream' = 0
         /\ totalAudioPlayed' = 0 /\ actualAudioPlayed' = 0
         /\ maxDelay' = 0
         /\ minDelay' = 2000 * sampleRate
         /\ partialBufferSamples' = asSamples(10)
         /\ maxBufferSamples' = asSamples(5 * 60 * 1000)
         /\ totalMaxBufferSamples' = asSamples(10) + asSamples(5 * 60 * 1000) + asSamples(80)]_vars
  /\ [][(HandleReset /\ op = "reset") => procVars' = procVars]_vars

\* A reset handled after pushes were played and an overflow had moved
\* maxBufferSamples away from its default.
C15_Witness ==
  /\ op = "reset"
  /\ telemetry.n >= 2
  /\ telemetry.last.actualAudioPlayed > 0
  /\ telemetry.last.delay = initialBufferSamples + DefaultPartialBufferSamples
  /\ maxBufferSamples = DefaultMaxBufferSamples

\* C16: zero-length frames contribute nothing. A push of a zero-length
\* frame changes none of started, partialBufferSamples, maxBufferSamples
\* and the available sample count; and a tick that finds no sample queued
\* (no frame, or zero-length frames only) acts as on an empty queue: it
\* outputs silence and changes none of started, partialBufferSamples and
\* maxBufferSamples.
C16_ZeroLengthFramesInert ==
  /\ [][(HandleAudio /\ NextMessage.frame.len = 0) =>
         /\ started' = started
         /\ partialBufferSamples' = partialBufferSamples
         /\ maxBufferSamples' = maxBufferSamples
         /\ currentSamples' = currentSamples]_vars
  /\ [][(Process /\ currentSamples = 0) =>
         /\ \A i \in 1 .. BlockLen : output'[i] = Silence
         /\ started' = started
         /\ partialBufferSamples' = partialBufferSamples
         /\ maxBufferSamples' = maxBufferSamples]_vars

\* C17: in every reachable state with a frame queued, the head offset is
\* strictly less than the length of the head frame, and the available
\* sample count is the sum of the queued frame lengths minus the head
\* offset.
C17_QueueInvariant ==
  Len(frames) > 0 =>
    /\ offsetInFirstBuffer < Head(frames).len
    /\ currentSamples = SumLen(frames) - offsetInFirstBuffer

\* C17 (amended): in every reachable state with a frame queued, the head
\* offset is not negative and is strictly less than the length of the head
\* frame unless that frame has length zero, in which case the offset is 0;
\* the available sample count is the sum of the queued frame lengths minus
\* the head offset and is not negative.
C17_QueueInvariantNonEmptyHead ==
  Len(frames) > 0 =>
    /\ offsetInFirstBuffer >= 0
    /\ Head(frames).len > 0 => offsetInFirstBuffer < Head(frames).len
    /\ Head(frames).len = 0 => offsetInFirstBuffer = 0
    /\ currentSamples = SumLen(frames) - offsetInFirstBuffer
    /\ currentSamples >= 0

\* A tick stopped inside the head frame, with further frames, one of them
\* of length zero, queued behind it.
C17_Witness ==
  /\ op = "process" /\ playable
  /\ Len(frames) > 1
  /\ offsetInFirstBuffer > 0
  /\ \E i \in 2 .. Len(frames) : frames[i].len = 0

\* q is p with some frames taken away at the head.
IsSuffix(q, p) ==
  \E k \in 0 .. Len(p) : q = SubSeq(p, k + 1, Len(p))

\* C18: pushes, resets and ticks being atomic steps interleaved in any
\* order, in every reachable state the available sample count is not
\* negative and the head offset lies between 0 and the length of the head
\* frame (it is 0 when no frame is queued); a push leaves the queue it
\* found, with the arrived frame appended, less frames removed at the
\* head, and removes none unless the overflow trim ran; a tick only
\* removes frames at the head.
C18_QueueConsistent ==
  /\ [](/\ currentSamples >= 0
        /\ offsetInFirstBuffer >= 0
        /\ Len(frames) = 0 => offsetInFirstBuffer = 0
        /\ Len(frames) > 0 => offsetInFirstBuffer <= Head(frames).len)
  /\ [][HandleAudio =>
         /\ IsSuffix(frames', Arrived)
         /\ ~overflowed' =>
              (frames' = Arrived /\ offsetInFirstBuffer' = offsetInFirstBuffer)]_vars
  /\ [][Process => IsSuffix(frames', frames)]_vars

\* A push handled between ticks and with a later message still in flight:
\* samples had been played, the push overflowed and the trim stopped
\* inside the frame now at the head.
C18_Witness ==
  /\ op = "audio" /\ overflowed
  /\ playedSamples > 0
  /\ Len(port) > 0
  /\ Len(frames) > 0 /\ offsetInFirstBuffer > 0

\* A process() call of the mic processor, whatever its input.
Callback == \E k \in InputKinds, n \in BlockSizes : MicProcess(k, n)

\* C19: every audioChunk posted holds exactly SAMPLES_PER_CHUNK (1920)
\* samples and reports that count; after every operation the accumulator
\* holds fewer than SAMPLES_PER_CHUNK samples; a callback whose resampled
\* block brings the accumulator to k * SAMPLES_PER_CHUNK + r samples, with
\* r < SAMPLES_PER_CHUNK, posts exactly k chunks and leaves r samples; a
\* start or a stop posts nothing.
C19_ChunkSizes ==
  /\ [](/\ SAMPLES_PER_CHUNK = 1920
        /\ \A i \in 1 .. Len(micPosted) :
             /\ micPosted[i].type = "audioChunk"
             /\ Count(micPosted[i].data) = SAMPLES_PER_CHUNK
             /\ micPosted[i].samples = SAMPLES_PER_CHUNK
        /\ Count(pcmBuffer) < SAMPLES_PER_CHUNK)
  /\ [][Callback =>
         LET total == Count(pcmBuffer) + Count(micResampled') - Count(micResampled)
         IN /\ Len(micPosted') = total \div SAMPLES_PER_CHUNK
            /\ Count(pcmBuffer') = total % SAMPLES_PER_CHUNK]_vars
  /\ [][(OnStart \/ OnStop) => micPosted' = <<>>]_vars

\* A callback that posted two chunks, the first made of samples of more
\* than one callback, and left a remainder in the accumulator.
C19_Witness ==
  /\ micOp = "process"
  /\ Len(micPosted) >= 2
  /\ Len(micPosted[1].data) >= 2
  /\ Count(pcmBuffer) > 0

\* C20: at any time, the data of the chunks posted since the latest start,
\* in the order posted, followed by the accumulator, are the resampled
\* blocks of the callbacks processed since that start, in callback order.
C20_NoSampleLost ==
  Concat(micEmitted, pcmBuffer) = micResampled

\* A recording at a native rate other than 24 kHz that has processed three
\* blocks or more, posted two chunks or more and holds a remainder.
C20_Witness ==
  /\ isRecording
  /\ micSampleRate /= TARGET_SAMPLE_RATE
  /\ Len(micResampled) >= 3
  /\ Count(micEmitted) >= 2 * SAMPLES_PER_CHUNK
  /\ pcmBuffer /= <<>>

\* C21: the array resampleTo24kHz returns for a block of L samples at
\* native rate r has floor(L * 24000 / r) elements and its element i is
\* the input sample of index floor(i * r / 24000); at 48 kHz it has L/2
\* elements, the input samples of even index; at 24 kHz it is the input
\* array.
C21_ResamplingRule ==
  LET L == Len(inputData)
      r == micSampleRate
  IN /\ Len(resampledArray) = (L * TARGET_SAMPLE_RATE) \div r
     /\ \A i \in 0 .. Len(resampledArray) - 1 :
          /\ (i * r) \div TARGET_SAMPLE_RATE < L
          /\ resampledArray[i + 1] = inputData[(i * r) \div TARGET_SAMPLE_RATE + 1]
     /\ r = 48000 =>
          /\ Len(resampledArray) = L \div 2
          /\ \A i \in 0 .. Len(resampledArray) - 1 :
               resampledArray[i + 1] = inputData[2 * i + 1]
     /\ r = TARGET_SAMPLE_RATE => resampledArray = inputData

\* The callback returns at one of the tests of lines 60, 65 or 71.
ReturnsEarly(k, n) == ~isRecording \/ k = "none" \/ k = "noChannel" \/ n = 0

\* C22: the chunker is constructed not recording, and a callback invoked
\* while not recording, with no input, with no channel 0 or with a channel
\* of length 0 returns normally, posts no chunk and leaves the accumulator
\* and the recording flag as they were.
C22_IdleCallback ==
  /\ ~isRecording
  /\ [][\A k \in InputKinds, n \in BlockSizes :
          MicProcess(k, n) /\ ReturnsEarly(k, n) =>
            /\ micOp' = "process"
            /\ micPosted' = <<>>
            /\ pcmBuffer' = pcmBuffer
            /\ isRecording' = isRecording]_vars

\* A callback ran while recording was stopped with samples accumulated.
C22_Witness ==
  /\ micOp = "process" /\ ~isRecording
  /\ pcmBuffer /= <<>> /\ micPosted = <<>>

\* C23: from any state the start command leaves isRecording true and the
\* accumulator empty and posts nothing; a start that follows a start
\* leaves the state of the processor as the first one left it.
C23_StartResets ==
  [][OnStart =>
       /\ isRecording' /\ pcmBuffer' = <<>> /\ micPosted' = <<>>
       /\ micOp = "start" =>
            /\ isRecording' = isRecording
            /\ pcmBuffer' = pcmBuffer
            /\ micPosted' = micPosted]_vars

\* A start was the last of several commands, after callbacks ran.
C23_Witness ==
  /\ micOp = "start" /\ nCommands = MaxCommands /\ nCallbacks > 0
  /\ isRecording /\ pcmBuffer = <<>>

\* Every sample of the chunks just posted was delivered by a callback
\* later than callback c.
PostedAfter(c) ==
  \A m \in 1 .. Len(micPosted) :
    \A g \in 1 .. Len(micPosted[m].data) : micPosted[m].data[g].call > c

\* C24: the stop command leaves isRecording false and posts no chunk, the
\* remainder being kept out of any message; and once a stop has been
\* followed by a start, no chunk holds a sample delivered by a callback
\* that ran before that stop.
C24_StopDiscards ==
  /\ [][OnStop => ~isRecording' /\ micPosted' = <<>>]_vars
  /\ \A c \in 0 .. MaxCallbacks :
       [](micOp = "stop" /\ nCallbacks = c =>
            [](micOp = "start" => []PostedAfter(c)))

\* A chunk was posted after a stop that left samples accumulated and the
\* start that followed it.
C24_Witness ==
  /\ micOp = "process" /\ micPosted /= <<>>
  /\ nCommands = MaxCommands /\ nCallbacks > 1
  /\ PostedAfter(1)

\* C25: a push that finds the buffer not started and leaves, once the frame
\* is appended, at least initialBufferSamples samples available sets
\* started, arms remainingPartialBufferSamples with partialBufferSamples
\* and sets firstOut; one that leaves fewer keeps the buffer not started;
\* a push that finds the buffer started leaves
\* remainingPartialBufferSamples and firstOut as they were.
C25_StartOnPush ==
  [][HandleAudio =>
       LET cur == currentSamplesOf(Append(frames, NextMessage.frame),
                                   offsetInFirstBuffer)
       IN /\ (~started /\ cur >= initialBufferSamples) =>
               /\ started'
               /\ remainingPartialBufferSamples' = partialBufferSamples
               /\ firstOut'
          /\ (~started /\ cur < initialBufferSamples) => ~started'
          /\ started =>
               /\ started'
               /\ remainingPartialBufferSamples' = remainingPartialBufferSamples
               /\ firstOut' = firstOut]_vars

\* A push has just started the buffer with a frame that brought the count
\* of the queue exactly to the threshold, after frames that did not.
C25_Witness ==
  /\ op = "audio" /\ started /\ firstOut
  /\ Len(frames) > 1 /\ currentSamples = initialBufferSamples
  /\ remainingPartialBufferSamples = partialBufferSamples

\* C26: a tick on which canPlay() is false outputs silence, lowers
\* remainingPartialBufferSamples by the block length, adds one block to
\* totalAudioPlayed exactly when actualAudioPlayed > 0, and leaves the
\* queue, the head offset, started, firstOut, partialBufferSamples,
\* maxBufferSamples, actualAudioPlayed, minDelay and maxDelay unchanged.
C26_SilentTick ==
  [][(Process /\ ~canPlay) =>
       /\ \A i \in 1 .. BlockLen : output'[i] = Silence
       /\ remainingPartialBufferSamples' = remainingPartialBufferSamples - BlockLen
       /\ (totalAudioPlayed' = totalAudioPlayed + BlockLen) <=> (actualAudioPlayed > 0)
       /\ (actualAudioPlayed > 0) \/ (totalAudioPlayed' = totalAudioPlayed)
       /\ UNCHANGED <<frames, offsetInFirstBuffer, started, firstOut,
                      partialBufferSamples, maxBufferSamples, actualAudioPlayed,
                      minDelay, maxDelay>>]_vars

\* A silent tick of a buffer that has played before and is counting down
\* with frames queued.
C26_Witness ==
  /\ op = "process" /\ ~playable
  /\ actualAudioPlayed > 0 /\ totalAudioPlayed > actualAudioPlayed
  /\ started /\ Len(frames) > 0

\* C27: a tick on which canPlay() is true copies min(block length, samples
\* available before the tick) samples; they are the oldest available
\* samples, in queue order across frame boundaries; the available count
\* decreases by the number copied; the frames copied to their end are
\* removed from the head of the queue, and the head offset is 0 unless
\* the new head frame is partly copied.
C27_CopyOldestSamples ==
  [][ProcessPlay =>
       /\ out_idx' = Min(BlockLen, currentSamples)
       /\ \A j \in 0 .. out_idx' - 1 :
            /\ output'[j + 1].id = SampleAt(frames, offsetInFirstBuffer, j).id
            /\ output'[j + 1].v = SampleAt(frames, offsetInFirstBuffer, j).v
       /\ currentSamples' = currentSamples - out_idx'
       /\ IsSuffix(frames', frames)
       /\ \/ offsetInFirstBuffer' = 0
          \/ /\ frames' /= <<>>
             /\ 0 < offsetInFirstBuffer'
             /\ offsetInFirstBuffer' < Head(frames').len]_vars

\* A playable tick filled its block from more than one frame, removed the
\* frames it finished and stopped inside the next one.
C27_Witness ==
  /\ op = "process" /\ playable /\ out_idx = BlockLen
  /\ offsetInFirstBuffer > 0
  /\ output[1].id < Head(frames).first
  /\ output[BlockLen].id = Head(frames).first + offsetInFirstBuffer - 1

\* C28: minDelay and maxDelay change only on playable ticks and on reset;
\* a playable tick makes them min(minDelay, d) and max(maxDelay, d), d
\* being the available sample count before any sample is copied, so that
\* minDelay <= d <= maxDelay after it; and minDelay <= maxDelay holds
\* after a playable tick and is kept by every step but a reset.
C28_DelayRange ==
  [][/\ (minDelay' /= minDelay \/ maxDelay' /= maxDelay) =>
          (ProcessPlay \/ HandleReset)
     /\ ProcessPlay =>
          /\ minDelay' = Min(minDelay, currentSamples)
          /\ maxDelay' = Max(maxDelay, currentSamples)
          /\ minDelay' <= currentSamples /\ currentSamples <= maxDelay'
          /\ minDelay' <= maxDelay'
     /\ (minDelay <= maxDelay /\ ~HandleReset) => minDelay' <= maxDelay']_vars

\* A playable tick recorded a new minDelay below the maxDelay an earlier
\* tick had recorded.
C28_Witness ==
  /\ op = "process" /\ playable
  /\ minDelay = currentSamples + out_idx
  /\ minDelay < maxDelay

\* C29 (as stated): totalAudioPlayed is 0 after construction or a reset
\* and every render tick adds one block duration to it, the ticks before
\* any audio was played included.
C29_TotalCountsEveryTick ==
  /\ totalAudioPlayed = 0
  /\ [][HandleReset => totalAudioPlayed' = 0]_vars
  /\ [][Process => totalAudioPlayed' = totalAudioPlayed + BlockLen]_vars

\* C29 (amended): totalAudioPlayed is 0 after construction or a reset;
\* a render tick adds one block duration to it when it is playable or
\* when actualAudioPlayed > 0, and a non-playable tick with
\* actualAudioPlayed = 0 adds nothing; no other step changes it.
C29_TotalCountsOnceAudioPlayed ==
  /\ totalAudioPlayed = 0
  /\ [][HandleReset => totalAudioPlayed' = 0]_vars
  /\ [][Process =>
          totalAudioPlayed' =
            IF canPlay \/ actualAudioPlayed > 0
            THEN totalAudioPlayed + BlockLen
            ELSE totalAudioPlayed]_vars
  /\ [][totalAudioPlayed' /= totalAudioPlayed => (Process \/ HandleReset)]_vars

\* A tick ran with the threshold not reached and nothing played since the
\* reset, and counted nothing.
C29_Witness ==
  /\ op = "process" /\ ~playable /\ ~started
  /\ resetMark > 1 /\ Len(frames) > 0
  /\ actualAudioPlayed = 0 /\ totalAudioPlayed = 0

\* C30: in every reachable state 0 <= actualAudioPlayed <=
\* totalAudioPlayed; a playable tick adds one block to totalAudioPlayed
\* and the number of samples it copied to actualAudioPlayed; and no step
\* other than a reset lowers either metric.
C30_MetricOrdering ==
  /\ [](0 <= actualAudioPlayed /\ actualAudioPlayed <= totalAudioPlayed)
  /\ [][ProcessPlay =>
          /\ totalAudioPlayed' = totalAudioPlayed + BlockLen
          /\ actualAudioPlayed' = actualAudioPlayed + out_idx']_vars
  /\ [][~HandleReset =>
          /\ totalAudioPlayed' >= totalAudioPlayed
          /\ actualAudioPlayed' >= actualAudioPlayed]_vars

\* A playable tick copied less than a block after earlier ticks had
\* played, the two metrics being apart.
C30_Witness ==
  /\ op = "process" /\ playable
  /\ 0 < out_idx /\ out_idx < BlockLen
  /\ actualAudioPlayed > out_idx
  /\ actualAudioPlayed < totalAudioPlayed

\* C31: in every reachable state partialBufferSamples lies between its
\* default (10 ms) and its cap (6000 ms) and is min(cap, default + k *
\* increment) for some number k of adaptations; it changes only when a
\* playable tick takes the underrun adaptation, to min(cap, old +
\* increment), and when a reset is handled, to the default; so it never
\* decreases between resets.
C31_PartialBufferBounds ==
  /\ [](/\ DefaultPartialBufferSamples <= partialBufferSamples
        /\ partialBufferSamples <= maxPartialWithIncrements
        /\ \E k \in 0 .. MaxUnderruns :
             partialBufferSamples =
               Min(maxPartialWithIncrements,
                   DefaultPartialBufferSamples + k * partialBufferIncrement))
  /\ [][/\ HandleReset => partialBufferSamples' = DefaultPartialBufferSamples
        /\ (PlayableTick /\ MissedAudio(out_idx', anyAudio')) =>
             partialBufferSamples' =
               Min(maxPartialWithIncrements,
                   partialBufferSamples + partialBufferIncrement)
        /\ partialBufferSamples' /= partialBufferSamples =>
             \/ HandleReset
             \/ PlayableTick /\ MissedAudio(out_idx', anyAudio')
        /\ ~HandleReset => partialBufferSamples' >= partialBufferSamples]_vars

\* An underrun adaptation found partialBufferSamples at its cap and left
\* it there.
C31_Witness ==
  /\ op = "process" /\ playable /\ MissedAudio(out_idx, anyAudio)
  /\ partialBufferSamples = maxPartialWithIncrements
  /\ nPosted > 1 + (maxPartialWithIncrements \div partialBufferIncrement)

\* C32: the cap of maxBufferSamples (6000 ms) is below its default (5
\* minutes); maxBufferSamples is the default until the first overflow
\* after construction or a reset, every overflow leaves it at the cap, and
\* only a reset changes it again; once it is at the cap a push overflows
\* exactly when it leaves initialBufferSamples + partialBufferSamples + cap
\* samples or more.
C32_MaxBufferClamp ==
  /\ maxMaxBufferWithIncrements < DefaultMaxBufferSamples
  /\ [](maxBufferSamples \in {DefaultMaxBufferSamples, maxMaxBufferWithIncrements})
  /\ [][/\ (HandleAudio /\ overflowed') =>
             maxBufferSamples' = maxMaxBufferWithIncrements
        /\ maxBufferSamples' /= maxBufferSamples =>
             \/ HandleReset /\ maxBufferSamples' = DefaultMaxBufferSamples
             \/ HandleAudio /\ overflowed'
                  /\ maxBufferSamples = DefaultMaxBufferSamples
        /\ (HandleAudio /\ maxBufferSamples = maxMaxBufferWithIncrements) =>
             (overflowed' <=>
                ArrivedSamples >= initialBufferSamples + partialBufferSamples
                                    + maxMaxBufferWithIncrements)]_vars

\* A second overflow since the reset, with maxBufferSamples at the cap
\* before and after it.
C32_Witness ==
  /\ op = "audio" /\ overflowed
  /\ maxBufferSamples = maxMaxBufferWithIncrements
  /\ droppedSamples > dropped /\ dropped > 0

\* C33: a push that overflows leaves partialBufferSamples unchanged and
\* changes started, firstOut and remainingPartialBufferSamples only as the
\* start check of that push does; a playable tick that takes the underrun
\* adaptation leaves maxBufferSamples unchanged; a reset sets both
\* parameters to their defaults, and no other step changes both.
C33_ParameterIndependence ==
  [][/\ (HandleAudio /\ overflowed') =>
          LET starting == ~started /\ ArrivedSamples >= initialBufferSamples
          IN /\ partialBufferSamples' = partialBufferSamples
             /\ started' = (started \/ starting)
             /\ firstOut' = (firstOut \/ starting)
             /\ remainingPartialBufferSamples' =
                  IF starting THEN partialBufferSamples
                  ELSE remainingPartialBufferSamples
     /\ (ProcessPlay /\ MissedAudio(out_idx', anyAudio')) =>
          maxBufferSamples' = maxBufferSamples
     /\ HandleReset =>
          /\ partialBufferSamples' = DefaultPartialBufferSamples
          /\ maxBufferSamples' = DefaultMaxBufferSamples
     /\ (partialBufferSamples' /= partialBufferSamples
          /\ maxBufferSamples' /= maxBufferSamples) => HandleReset]_vars

\* A push overflowed a buffer whose partialBufferSamples an underrun had
\* raised, and started it.
C33_Witness ==
  /\ op = "audio" /\ overflowed /\ started /\ firstOut
  /\ partialBufferSamples > DefaultPartialBufferSamples
  /\ maxBufferSamples = maxMaxBufferWithIncrements
  /\ remainingPartialBufferSamples = partialBufferSamples

\* The copy loop of a tick run on the queue as it is.
CopyLoopOfTick ==
  CopyLoop(frames, offsetInFirstBuffer, [i \in 1 .. BlockLen |-> Silence], 0, FALSE)

\* The trim loop of the push of the arriving frame.
TrimLoopOfPush ==
  TrimLoop(Arrived, offsetInFirstBuffer, timeInStream,
           TrimTarget(partialBufferSamples))

\* C34: the copy loop of every playable tick and the trim loop of every
\* overflowing push end after at most (number of queued frames + 1)
\* passes, each pass either removing the head frame or being the last,
\* zero-length frames in the queue included.
C34_LoopsTerminate ==
  [][/\ ProcessPlay =>
          /\ CopyLoopOfTick.iterations <= Len(frames) + 1
          /\ CopyLoopOfTick.removesOrEnds
          /\ frames' = CopyLoopOfTick.frames
     /\ (HandleAudio /\ overflowed') =>
          /\ TrimLoopOfPush.iterations <= Len(Arrived) + 1
          /\ TrimLoopOfPush.removesOrEnds
          /\ frames' = TrimLoopOfPush.frames]_vars

\* A playable tick whose copy loop found only zero-length frames queued:
\* it removed them and copied nothing.
C34_Witness ==
  /\ op = "process" /\ playable
  /\ out_idx = 0 /\ frames = <<>>
  /\ playedSamples > 0

\* C35: in every state between operations, a buffer that is not started
\* holds fewer than initialBufferSamples samples; right after a reset and
\* right after an underrun adaptation it is not started and its queue is
\* empty.
C35_NotStartedBelowThreshold ==
  /\ ~started => currentSamples < initialBufferSamples
  /\ (\/ op = "reset"
      \/ op = "process" /\ playable /\ MissedAudio(out_idx, anyAudio)) =>
       (~started /\ frames = <<>>)

\* A push after an underrun adaptation left the buffer not started with
\* some samples queued.
C35_Witness ==
  /\ op = "audio" /\ ~started
  /\ 0 < currentSamples /\ currentSamples < initialBufferSamples
  /\ partialBufferSamples > DefaultPartialBufferSamples

\* C36: a push that starts the buffer arms the countdown with
\* partialBufferSamples and leaves samples queued; from then on, no reset
\* intervening, the ticks are silent and lower the countdown by one block
\* each while it is positive, and the tick that finds it at or below 0,
\* the one after ceil(partialBufferSamples / block length) silent ticks,
\* copies min(block length, available) > 0 samples; ticks being scheduled
\* fairly, a started buffer with samples queued eventually plays.
C36_PlaybackEventuallyStarts ==
  /\ [](firstOut =>
          /\ started /\ currentSamples > 0
          /\ remainingPartialBufferSamples <= partialBufferSamples
          /\ remainingPartialBufferSamples > -BlockLen
          /\ (partialBufferSamples - remainingPartialBufferSamples) % BlockLen = 0)
  /\ [][/\ (HandleAudio /\ ~started /\ started') =>
             /\ firstOut'
             /\ remainingPartialBufferSamples' = partialBufferSamples'
             /\ currentSamples' > 0
        /\ (RenderTick /\ firstOut /\ remainingPartialBufferSamples > 0) =>
             /\ ~playable' /\ out_idx' = 0 /\ firstOut'
             /\ remainingPartialBufferSamples' =
                  remainingPartialBufferSamples - BlockLen
        /\ (RenderTick /\ firstOut /\ remainingPartialBufferSamples <= 0) =>
             /\ playable' /\ out_idx' > 0
             /\ out_idx' = Min(BlockLen, currentSamples)]_vars
  /\ (started /\ currentSamples > 0) ~> (op = "process" /\ playable /\ out_idx > 0)

\* The first block was played after a countdown of more than one tick,
\* armed by a start that followed an underrun adaptation.
C36_Witness ==
  /\ op = "process" /\ playable /\ out_idx = BlockLen
  /\ output[1].num = 0
  /\ partialBufferSamples > 2 * BlockLen
  /\ remainingPartialBufferSamples <= 0

\* The latest step pushed a non-empty frame into the empty queue of a
\* buffer that is started and has played since it started.
PushedAfterDrain ==
  /\ op = "audio" /\ started /\ ~firstOut
  /\ Len(frames) = 1 /\ offsetInFirstBuffer = 0
  /\ currentSamples > 0 /\ dropped = 0
  /\ telemetry.last.delay = currentSamples

\* C37: a playable tick that copies a full block and leaves the queue
\* empty leaves started true and partialBufferSamples unchanged; the
\* ticks that find the buffer started with an empty queue are silent and
\* change neither; and the tick that follows the push of a non-empty
\* frame into that empty queue copies min(block length, available)
\* samples at once, whatever the count, with the countdown untouched and
\* no fade-in.
C37_BlockAlignedDrain ==
  [][/\ (ProcessPlay /\ out_idx' = BlockLen /\ frames' = <<>>) =>
          /\ started'
          /\ partialBufferSamples' = partialBufferSamples
     /\ (Process /\ started /\ frames = <<>>) =>
          /\ ~playable' /\ out_idx' = 0
          /\ \A i \in 1 .. BlockLen : output'[i] = Silence
          /\ started'
          /\ partialBufferSamples' = partialBufferSamples
     /\ (Process /\ PushedAfterDrain) =>
          /\ playable'
          /\ out_idx' = Min(BlockLen, currentSamples) /\ out_idx' > 0
          /\ remainingPartialBufferSamples' = remainingPartialBufferSamples
          /\ HasGain(output', 1, 1, 1)
          /\ output'[1].id = Head(frames).first]_vars

\* Two full blocks drained the queue; a one-sample frame pushed afterwards
\* was played by the next tick, below the start threshold.
C37_Witness ==
  /\ op = "process" /\ playable /\ out_idx = 1
  /\ playedSamples = 2 * BlockLen + 1
  /\ telemetry.last.delay = 1
  /\ droppedSamples = 0
  /\ HasGain(output, 1, 1, 1)

\* C38 (as stated): after a stop the accumulator is empty, and it is empty
\* whenever the chunker is not recording.
C38_AccumulatorClearedByStop ==
  /\ micOp = "stop" => pcmBuffer = <<>>
  /\ ~isRecording => pcmBuffer = <<>>

\* C38 (amended): a stop leaves the accumulator as it was, holding a
\* remainder of fewer than SAMPLES_PER_CHUNK samples; while the chunker
\* is not recording only a start changes the accumulator, and it empties
\* it.
C38_AccumulatorKeptUntilStart ==
  /\ [](Count(pcmBuffer) < SAMPLES_PER_CHUNK)
  /\ [][/\ OnStop => pcmBuffer' = pcmBuffer
        /\ (~isRecording /\ pcmBuffer' /= pcmBuffer) =>
             (OnStart /\ pcmBuffer' = <<>>)]_vars

\* A stop found the samples of several callbacks accumulated and left
\* them there.
C38_Witness ==
  /\ micOp = "stop" /\ ~isRecording
  /\ Count(pcmBuffer) > RenderQuantum
  /\ Len(pcmBuffer) > 1

\* C39: for a block of L samples at a native rate above, equal to or
\* below the target, every index the resampler reads for an element of
\* its output lies in 0 .. L-1, so that each element is the input sample
\* at that index and never the zero standing for a read past the end;
\* the indices do not decrease with i; and the same range holds for the
\* exact index floor(i * nativeRate / targetRate), i below
\* floor(L * targetRate / nativeRate).
C39_IndexRange ==
  LET L == Len(inputData)
      r == micSampleRate
      n == Len(resampledArray)
  IN /\ \A i \in 0 .. n - 1 :
          /\ SrcIndex(i, r) \in 0 .. L - 1
          /\ resampledArray[i + 1] = inputData[SrcIndex(i, r) + 1]
     /\ \A i \in 1 .. n - 1 : SrcIndex(i - 1, r) <= SrcIndex(i, r)
     /\ \A i \in 0 .. ((L * TARGET_SAMPLE_RATE) \div r) - 1 :
          (i * r) \div TARGET_SAMPLE_RATE \in 0 .. L - 1

\* A block was resampled from a rate below the target: several elements
\* of the output come from one input sample, the last input sample
\* included.
C39_Witness ==
  /\ micSampleRate < TARGET_SAMPLE_RATE
  /\ Len(inputData) = MaxInputLen
  /\ Len(resampledArray) > Len(inputData)
  /\ resampledArray[Len(resampledArray)] = inputData[Len(inputData)]

\* C40.  Client delivery of server audio.  (a) The latest decodable
\* audio_chunk is among the frames posted to an output processor node if
\* and only if both the node and the audio context existed when it arrived,
\* and it was posted to the node that existed then.  (b) Frames are posted
\* in the order the messages arrived.  (c) A step of stopRecording that
\* finds the client recording leaves neither node nor context; a chunk that
\* arrives while the node or the context is missing is not posted, the only
\* frame a step ever posts is the chunk arriving in that step (so a dropped
\* chunk is never queued or replayed), and a missing node comes back only
\* by initAudio creating a new one.
Delivered(c) == \E k \in 1 .. Len(chatPosted) : chatPosted[k].chunk = c
C40_DeliveredIffNodeAndContext ==
  /\ []((lastChunk.id > 0 /\ lastChunk.kind = "pcm") =>
         /\ Delivered(lastChunk.id) <=> (lastChunk.node /= 0 /\ lastChunk.context /= 0)
         /\ Delivered(lastChunk.id) =>
              chatPosted[Len(chatPosted)] = [node |-> lastChunk.node, chunk |-> lastChunk.id])
  /\ [](\A j, k \in 1 .. Len(chatPosted) : j < k => chatPosted[j].chunk < chatPosted[k].chunk)
  /\ [][/\ (chatOp' = "stopRecording" /\ chatIsRecording) =>
             (audioProcessor' = 0 /\ audioContext' = 0)
        /\ (nChunks' /= nChunks /\ (audioProcessor = 0 \/ audioContext = 0)) =>
             chatPosted' = chatPosted
        /\ chatPosted' /= chatPosted =>
             /\ nChunks' = nChunks + 1
             /\ chatPosted' = Append(chatPosted, [node |-> audioProcessor, chunk |-> nChunks'])
        /\ (audioProcessor' /= audioProcessor /\ audioProcessor' /= 0) =>
             /\ chatOp' \in {"initAudio", "initThrewAfterOutput"}
             /\ \A k \in 1 .. Len(chatPosted) : chatPosted[k].node /= audioProcessor'
       ]_vars

\* A chunk was posted, stopRecording ran, the next chunk was dropped, and
\* after a new initAudio the chunk after it was posted to the new node.
C40_Witness ==
  /\ chatOp = "audio_chunk"
  /\ lastChunk.id = 3
  /\ lastChunk.kind = "pcm"
  /\ Len(chatPosted) = 2
  /\ chatPosted[1].chunk = 1
  /\ chatPosted[2].chunk = 3
  /\ chatPosted[1].node /= chatPosted[2].node

====
